---------------------------- MODULE Spec2Model ----------------------------
(***************************************************************************)
(* Verification model of the VRTemplate render thread:                     *)
(*   - MessageQueue (utils/MessageQueue.h): the ring buffer between the    *)
(*     host thread and the render thread;                                  *)
(*   - VrApp::MainLoop (VrApp.cpp): event drain, session begin/end, frame  *)
(*     index, input and the frame;                                         *)
(*   - OpenXr::Init and Shutdown (OpenXR.cpp), EglContext (Egl.cpp),       *)
(*     Framebuffer (gl/Framebuffer.cpp), VRAppThread (VrApp.cpp).          *)
(* Ten specifications share the variables; each freezes the variables of   *)
(* the components it does not exercise.                                    *)
(*   Spec       render thread + runtime event source + host thread         *)
(*   SpecLive   Spec with the scheduling of the two threads                *)
(*   SpecQueue  MessageQueue used call by call (Post and Poll whole)       *)
(*   SpecMPSC   MessageQueue with the atomic steps of Post/Poll interleaved*)
(*   SpecDrain  HandleMessageQueueEvents Poll by Poll beside producers     *)
(*   SpecInit   OpenXr::Init, one action per initialization step           *)
(*   SpecLife   Init, the framebuffer's Create/Destroy, Shutdown           *)
(*   SpecInput  the input calls of the active ticks                        *)
(*   SpecRender one eye's framebuffer from VrApp::Init through the frames  *)
(*   SpecHost   nativeOnCreate/nativeOnDestroy and the threads they start  *)
(***************************************************************************)
EXTENDS Integers, Sequences, FiniteSets, TLC

(***************************************************************************)
(* Bounds of the model.                                                    *)
(***************************************************************************)
\* size_t is modelled SizeBits wide; the counters stay far below 2^SizeBits, so
\* only the unsigned subtractions of Post can wrap.
SizeBits == 8
\* capacities 2^0 .. 2^MaxCapLog are tried by the queue specifications
MaxCapLog == 2
\* number of Post calls in the queue specifications
MaxPosts == 7
\* number of successful Poll calls in SpecMPSC
MaxPolls == 4
\* concurrent producers in SpecMPSC
NumProducers == 2

SizeMod == 2 ^ SizeBits

Min(a, b) == IF a < b THEN a ELSE b

VARIABLES
    \* ---- MessageQueue ----
    kCapacityPow2,  \* template parameter of the queue instance
    gMessageQueue,  \* [mHead, mTail, mBuffer]
    prod,           \* per producer: position inside Post, reserved pos, message
    cons,           \* consumer: position inside Poll, loaded head, message read
    nextMsg,        \* payload of the next message to be posted (1, 2, ...)
    written,        \* payloads whose slot write has completed
    polled,         \* payloads returned by Poll, in order
    lastPoll,       \* result of the most recent Poll: [ok, msg]
    fifo,           \* reference FIFO of capacity kCapacityPow2 (call-by-call use)
    idealPoll,      \* what the reference FIFO answers to the most recent Poll
    burst,          \* messages posted since the queue was last empty, no Poll since
    burstValid,     \* FALSE once a Poll ran that left the queue non-empty
    dropped         \* messages of the burst whose Post rolled back

queueVars == <<kCapacityPow2, gMessageQueue, prod, cons, nextMsg, written, polled,
               lastPoll, fifo, idealPoll, burst, burstValid, dropped>>

VARIABLES
    assertsOn,      \* TRUE: built without NDEBUG, assert() is live
    pc,             \* render thread: "top", "poll", "msgs", "check", "done", "aborted"
    newState,       \* the AppState the tick is working on (HandleEvents' newState)
    mLastAppState,  \* VrApp::mLastAppState
    mFrameIndex,    \* VrApp::mFrameIndex
    lastState,      \* static lastState of OXRHandleSessionStateChangedEvent
    events,         \* events the runtime holds for xrPollEvent
    rtState,        \* the runtime's session state
    running,        \* the runtime's session is running (begun, not ended)
    readyCount,     \* READY events issued so far
    tickCalls,      \* runtime calls of the current tick, in order
    hostPc,         \* host thread: "alive", "posting", "joining", "joined"
    \* ---- history ----
    lastBeginOk,    \* result of the xrBeginSession of the last READY event
    cycleOpen,      \* inside an activation cycle
    cycleLog,       \* begin/end-session calls and the first wait-frame since the last READY
    activeTicks,    \* active ticks since the last successful begin-session
    lastTick,       \* kind of the last completed tick: "none", "active", "idle"
    lossSeen,       \* loss events handled so far: "session", "instance"
    sceneLayers,    \* layers RenderScene added in the last frame
    layerCount,     \* layerCount given to the last xrEndFrame (0: none yet)
    frameTimes,     \* the last tick's frame: the time xrWaitFrame predicted and the
                    \*   displayTime given to xrEndFrame (0: the tick had no frame)
    exitCalls,      \* the session calls of the Shutdown that follows MainLoop
    drained         \* HandleMessageQueueEvents' numMessagesHandled, in the stepwise drain

appVars == <<assertsOn, pc, newState, mLastAppState, mFrameIndex, lastState, events,
             rtState, running, readyCount, tickCalls, hostPc, lastBeginOk, cycleOpen,
             cycleLog, activeTicks, lastTick, lossSeen, sceneLayers, layerCount,
             frameTimes, exitCalls, drained>>

VARIABLES
    \* ---- OpenXr::Init ----
    ipc,                    \* next step of Init, or "returned"
    initResult,             \* Init's return value (meaningful once ipc = "returned")
    extProps,               \* the runtime's extension list, as enumerated
    mInstance,              \* OpenXr::mInstance is not XR_NULL_HANDLE
    mSession,               \* OpenXr::mSession is not XR_NULL_HANDLE
    mEglContext,            \* "null", "valid" or "invalid" (IsValid() false)
    mSpaces,                \* reference-space members that are not XR_NULL_HANDLE
    mEnabledExtensions,     \* the enabled-extension array
    mEnabledExtensionCount,
    createInfo,             \* what xrCreateInstance was given (called = FALSE if it was not)
    instanceRet,            \* InitInstance's return value (0 before it ran)
    \* ---- history ----
    started,                \* steps started, in order
    okSteps,                \* steps that succeeded
    failedStep,             \* the step whose failure made Init return
    acquired,               \* resources acquired, in order
    live,                   \* resources still live, in order of acquisition
    released                \* resources released, in order

initVars == <<ipc, initResult, extProps, mInstance, mSession, mEglContext, mSpaces,
              mEnabledExtensions, mEnabledExtensionCount, createInfo, instanceRet,
              started, okSteps, failedStep, acquired, live, released>>

VARIABLES
    \* ---- teardown: EglContext, Framebuffer, OpenXr::Shutdown ----
    eglContext,         \* members of the EglContext mEglContext points to
    fb,                 \* members of one Framebuffer of VrApp::mFramebuffers
    swapchainFormats,   \* what xrEnumerateSwapchainFormats reports for the session
    glObjects,          \* GL framebuffer and renderbuffer names alive
    swapchains,         \* swapchains alive in the runtime
    vrAppGone,          \* the VrApp of ThreadFnJNI has been destroyed
    \* ---- history ----
    fbOps,              \* Create and Destroy calls so far
    sessionStarts,      \* CreateRuntimeInitiatedReferenceSpaces calls so far
    shutdownCalls,      \* OpenXr::Shutdown calls so far
    lastOp,             \* the most recent Create, Destroy or Shutdown
    torn,               \* objects whose teardown has run since they were set up
    repeated            \* objects whose teardown ran again on the torn-down object

lifeVars == <<eglContext, fb, swapchainFormats, glObjects, swapchains, vrAppGone, fbOps,
              sessionStarts, shutdownCalls, lastOp, torn, repeated>>

VARIABLES
    \* ---- controller input: InputStateFrame, InputStateStatic ----
    mInputStateFrame,   \* VrApp::mInputStateFrame: [mPreferredHand, mIsHandActive,
                        \*   mIndexTriggerState, mHandPositions]
    mHandSpaces,        \* per hand: InputStateStatic::mHandSpaces is not XR_NULL_HANDLE
    inputPc,            \* next input call of the tick: "buttons", "poses"; "aborted", "off"
    \* ---- history ----
    poseActive,         \* per hand: isActive of the last xrGetActionStatePose
    frameBefore,        \* mInputStateFrame as the last SyncHandPoses found it
    posesSynced         \* SyncHandPoses has run

inputVars == <<mInputStateFrame, mHandSpaces, inputPc, poseActive, frameBefore, posesSynced>>

VARIABLES
    \* ---- one eye's framebuffer in use: Framebuffer, its swapchain, GL ----
    renderPc,               \* next call on the framebuffer: "init", "acquire", "draw",
                            \*   "resolve", "release"; "aborted", "off"
    mTextureSwapChainIndex, \* Framebuffer::mTextureSwapChainIndex
    swapImages,             \* per swapchain image: "free", "acquired", "waited"
    imageColors,            \* per swapchain image: its colour
    msaaColors,             \* per target: colour of the multisample colour buffer
    depthContents,          \* per target: "none", "cleared", "drawn", "invalidated"
    validation,             \* the completeness check Create made on a target
    \* ---- history ----
    acquireLog,             \* the last Acquire: its calls and the wait results
    eyeLog,                 \* the calls of the current eye iteration
    renderFrames            \* eye iterations started

renderVars == <<renderPc, mTextureSwapChainIndex, swapImages, imageColors, msaaColors,
                depthContents, validation, acquireLog, eyeLog, renderFrames>>

frameVars == <<inputVars, renderVars>>

(***************************************************************************)
(* Message (MessageQueue.h).  The only type is EXIT_NEEDED; the payload    *)
(* tells messages apart.  A default-constructed Message has payload 0.     *)
(***************************************************************************)
Message(t, payload) == [mType |-> t, mPayload |-> payload]

DefaultMessage == Message("EXIT_NEEDED", 0)

(***************************************************************************)
(* size_t arithmetic and the ring index.                                   *)
(***************************************************************************)
USub(a, b) == (a - b + SizeMod) % SizeMod

UAdd(a, b) == (a + b) % SizeMod

RECURSIVE BitAnd(_, _)
BitAnd(a, b) ==
    IF a = 0 \/ b = 0 THEN 0
    ELSE 2 * BitAnd(a \div 2, b \div 2) + (IF a % 2 = 1 /\ b % 2 = 1 THEN 1 ELSE 0)

kMask(cap) == cap - 1

SlotOf(pos, cap) == BitAnd(pos, kMask(cap))

\* std::array<Message, kCapacityPow2> mBuffer{}: every slot starts as a default
\* Message.  The model keeps the slots written so far; SlotValue reads the
\* default from the others.
EmptyQueue(cap) == [mHead |-> 0, mTail |-> 0, mBuffer |-> <<>>]

SlotValue(buf, slot) == IF slot \in DOMAIN buf THEN buf[slot] ELSE DefaultMessage

(***************************************************************************)
(* MessageQueue::Post, step by step.                                       *)
(***************************************************************************)
\* mTail.fetch_add(1): the queue after the reservation (pos is the old mTail)
PostReserve(q) == [q EXCEPT !.mTail = UAdd(q.mTail, 1)]

\* pos - mHead.load() >= kCapacityPow2
PostIsFull(pos, head, cap) == USub(pos, head) >= cap

\* a rollback that forgets to give the slot back
PostRollbackKeepsTail(q) == q

\* mTail.fetch_sub(1)
PostRollback(q) == [q EXCEPT !.mTail = USub(q.mTail, 1)]

\* mBuffer[pos & kMask] = msg
PostWrite(q, pos, msg, cap) ==
    LET slot == SlotOf(pos, cap)
    IN  [q EXCEPT !.mBuffer = [i \in DOMAIN q.mBuffer \cup {slot} |->
                                  IF i = slot THEN msg ELSE q.mBuffer[i]]]

\* the whole call, run without interruption
Post(q, msg, cap) ==
    LET pos == q.mTail
        q1  == PostReserve(q)
    IN  IF PostIsFull(pos, q1.mHead, cap)
        THEN [queue |-> PostRollback(q1), accepted |-> FALSE]
        ELSE [queue |-> PostWrite(q1, pos, msg, cap), accepted |-> TRUE]

(***************************************************************************)
(* MessageQueue::Poll.                                                     *)
(***************************************************************************)
\* head == mTail.load()
PollIsEmpty(head, tail) == head = tail

\* outMsg = mBuffer[head & kMask]
PollRead(q, head, cap) == SlotValue(q.mBuffer, SlotOf(head, cap))

\* a store that does not advance the head
PollStoreSameHead(q, head) == [q EXCEPT !.mHead = head]

\* mHead.store(head + 1)
PollStore(q, head) == [q EXCEPT !.mHead = UAdd(head, 1)]

\* the whole call, run without interruption
Poll(q, cap) ==
    LET head == q.mHead
    IN  IF PollIsEmpty(head, q.mTail)
        THEN [queue |-> q, ok |-> FALSE, msg |-> DefaultMessage]
        ELSE [queue |-> PollStore(q, head), ok |-> TRUE, msg |-> PollRead(q, head, cap)]

NoPoll == [ok |-> FALSE, msg |-> DefaultMessage, ran |-> FALSE]

PollResult(r) == [ok |-> r.ok, msg |-> IF r.ok THEN r.msg ELSE DefaultMessage, ran |-> TRUE]

(***************************************************************************)
(* SpecQueue: one thread calls Post and Poll, each call whole.             *)
(***************************************************************************)
Producers == 1 .. NumProducers

IdleProd == [pc |-> "idle", pos |-> 0, msg |-> DefaultMessage]

IdleCons == [pc |-> "idle", head |-> 0, out |-> DefaultMessage]

Capacities == {2 ^ i : i \in 0 .. MaxCapLog}

QueueInit(caps) ==
    /\ kCapacityPow2 \in caps
    /\ gMessageQueue = EmptyQueue(kCapacityPow2)
    /\ prod = [p \in Producers |-> IdleProd]
    /\ cons = IdleCons
    /\ nextMsg = 1
    /\ written = {}
    /\ polled = <<>>
    /\ lastPoll = NoPoll
    /\ fifo = <<>>
    /\ idealPoll = NoPoll
    /\ burst = <<>>
    /\ burstValid = TRUE
    /\ dropped = <<>>

SeqPost ==
    /\ nextMsg <= MaxPosts
    /\ LET msg == Message("EXIT_NEEDED", nextMsg)
           r   == Post(gMessageQueue, msg, kCapacityPow2)
       IN  /\ gMessageQueue' = r.queue
           /\ written' = IF r.accepted THEN written \cup {nextMsg} ELSE written
           /\ fifo' = IF Len(fifo) < kCapacityPow2 THEN Append(fifo, msg) ELSE fifo
           /\ burst' = IF burstValid THEN Append(burst, msg) ELSE burst
           /\ dropped' = IF burstValid /\ ~r.accepted THEN Append(dropped, msg) ELSE dropped
    /\ nextMsg' = nextMsg + 1
    /\ UNCHANGED <<kCapacityPow2, prod, cons, polled, lastPoll, idealPoll, burstValid>>
    /\ UNCHANGED <<appVars, initVars, lifeVars, frameVars>>

SeqPoll ==
    /\ LET r == Poll(gMessageQueue, kCapacityPow2)
       IN  /\ gMessageQueue' = r.queue
           /\ lastPoll' = PollResult(r)
           /\ polled' = IF r.ok THEN Append(polled, r.msg.mPayload) ELSE polled
           /\ burstValid' = (r.queue.mHead = r.queue.mTail)
    /\ idealPoll' = IF fifo = <<>> THEN [NoPoll EXCEPT !.ran = TRUE]
                    ELSE [ok |-> TRUE, msg |-> Head(fifo), ran |-> TRUE]
    /\ fifo' = IF fifo = <<>> THEN fifo ELSE Tail(fifo)
    /\ burst' = <<>>
    /\ dropped' = <<>>
    /\ UNCHANGED <<kCapacityPow2, prod, cons, nextMsg, written>>
    /\ UNCHANGED <<appVars, initVars, lifeVars, frameVars>>

(***************************************************************************)
(* SpecMPSC: producers and the consumer run concurrently; every atomic     *)
(* operation and every buffer access of Post and Poll is a step.           *)
(***************************************************************************)
\* const size_t pos = mTail.fetch_add(1)
ProdReserve(p) ==
    /\ prod[p].pc = "idle"
    /\ nextMsg <= MaxPosts
    /\ prod' = [prod EXCEPT ![p] = [pc |-> "check", pos |-> gMessageQueue.mTail,
                                    msg |-> Message("EXIT_NEEDED", nextMsg)]]
    /\ gMessageQueue' = PostReserve(gMessageQueue)
    /\ nextMsg' = nextMsg + 1
    /\ UNCHANGED <<kCapacityPow2, cons, written, polled, lastPoll, fifo, idealPoll,
                   burst, burstValid, dropped>>
    /\ UNCHANGED <<appVars, initVars, lifeVars, frameVars>>

\* if (pos - mHead.load() >= kCapacityPow2)
ProdCheck(p) ==
    /\ prod[p].pc = "check"
    /\ prod' = [prod EXCEPT ![p].pc =
                   IF PostIsFull(prod[p].pos, gMessageQueue.mHead, kCapacityPow2)
                   THEN "rollback" ELSE "write"]
    /\ UNCHANGED <<kCapacityPow2, gMessageQueue, cons, nextMsg, written, polled,
                   lastPoll, fifo, idealPoll, burst, burstValid, dropped>>
    /\ UNCHANGED <<appVars, initVars, lifeVars, frameVars>>

\* mTail.fetch_sub(1); return
ProdRollback(p) ==
    /\ prod[p].pc = "rollback"
    /\ gMessageQueue' = PostRollback(gMessageQueue)
    /\ prod' = [prod EXCEPT ![p] = IdleProd]
    /\ UNCHANGED <<kCapacityPow2, cons, nextMsg, written, polled, lastPoll, fifo,
                   idealPoll, burst, burstValid, dropped>>
    /\ UNCHANGED <<appVars, initVars, lifeVars, frameVars>>

\* mBuffer[pos & kMask] = msg; the release fence
ProdWrite(p) ==
    /\ prod[p].pc = "write"
    /\ gMessageQueue' = PostWrite(gMessageQueue, prod[p].pos, prod[p].msg, kCapacityPow2)
    /\ written' = written \cup {prod[p].msg.mPayload}
    /\ prod' = [prod EXCEPT ![p] = IdleProd]
    /\ UNCHANGED <<kCapacityPow2, cons, nextMsg, polled, lastPoll, fifo, idealPoll,
                   burst, burstValid, dropped>>
    /\ UNCHANGED <<appVars, initVars, lifeVars, frameVars>>

\* const size_t head = mHead.load()
ConsLoadHead ==
    /\ cons.pc = "idle"
    /\ Len(polled) < MaxPolls
    /\ cons' = [pc |-> "compare", head |-> gMessageQueue.mHead, out |-> DefaultMessage]
    /\ UNCHANGED <<kCapacityPow2, gMessageQueue, prod, nextMsg, written, polled,
                   lastPoll, fifo, idealPoll, burst, burstValid, dropped>>
    /\ UNCHANGED <<appVars, initVars, lifeVars, frameVars>>

\* if (head == mTail.load()) return false
ConsCompare ==
    /\ cons.pc = "compare"
    /\ IF PollIsEmpty(cons.head, gMessageQueue.mTail)
       THEN /\ cons' = IdleCons
            /\ lastPoll' = [NoPoll EXCEPT !.ran = TRUE]
       ELSE /\ cons' = [cons EXCEPT !.pc = "read"]
            /\ UNCHANGED lastPoll
    /\ UNCHANGED <<kCapacityPow2, gMessageQueue, prod, nextMsg, written, polled, fifo,
                   idealPoll, burst, burstValid, dropped>>
    /\ UNCHANGED <<appVars, initVars, lifeVars, frameVars>>

\* outMsg = mBuffer[head & kMask]
ConsRead ==
    /\ cons.pc = "read"
    /\ cons' = [cons EXCEPT !.pc = "store",
                            !.out = PollRead(gMessageQueue, cons.head, kCapacityPow2)]
    /\ UNCHANGED <<kCapacityPow2, gMessageQueue, prod, nextMsg, written, polled,
                   lastPoll, fifo, idealPoll, burst, burstValid, dropped>>
    /\ UNCHANGED <<appVars, initVars, lifeVars, frameVars>>

\* mHead.store(head + 1); return true
ConsStore ==
    /\ cons.pc = "store"
    /\ gMessageQueue' = PollStore(gMessageQueue, cons.head)
    /\ polled' = Append(polled, cons.out.mPayload)
    /\ lastPoll' = [ok |-> TRUE, msg |-> cons.out, ran |-> TRUE]
    /\ cons' = IdleCons
    /\ UNCHANGED <<kCapacityPow2, prod, nextMsg, written, fifo, idealPoll, burst,
                   burstValid, dropped>>
    /\ UNCHANGED <<appVars, initVars, lifeVars, frameVars>>

(***************************************************************************)
(* OpenXr (OpenXR.cpp, OpenXR.h): the initialization sequence.             *)
(***************************************************************************)
Reverse(seq) == [i \in 1 .. Len(seq) |-> seq[Len(seq) + 1 - i]]

RECURSIVE SetToSeq(_)
SetToSeq(S) ==
    IF S = {} THEN <<>>
    ELSE LET x == CHOOSE x \in S : TRUE IN <<x>> \o SetToSeq(S \ {x})

\* OpenXR.h: REQUIRED_EXTENSIONS
REQUIRED_EXTENSIONS ==
    <<"XR_KHR_opengl_es_enable", "XR_EXT_performance_settings",
      "XR_KHR_android_thread_settings">>

\* OpenXR.h: OPTIONAL_EXTENSIONS
OPTIONAL_EXTENSIONS ==
    <<"XR_FB_passthrough", "XR_META_performance_metrics",
      "XR_FB_composition_layer_settings", "XR_EXT_hand_tracking",
      "XR_FB_touch_controller_pro", "XR_KHR_visibility_mask">>

Range(seq) == {seq[i] : i \in DOMAIN seq}

Contains(seq, x) == \E i \in DOMAIN seq : seq[i] = x

\* extension names a runtime may list: the ones the application knows and one
\* it does not
ExtensionNames ==
    Range(REQUIRED_EXTENSIONS) \cup Range(OPTIONAL_EXTENSIONS)
        \cup {"XR_KHR_composition_layer_cube"}

\* strcmp(name, extProps[j].extensionName) == 0 for some j < extCount
Listed(name, props) == \E j \in 1 .. Len(props) : props[j] = name

(***************************************************************************)
(* OpenXr::InitLoader.  fault names the runtime call that fails.           *)
(***************************************************************************)
LoaderFaults == {"none", "xrGetInstanceProcAddr", "xrInitializeLoaderKHR"}

InitLoader(fault) ==
    IF fault = "xrGetInstanceProcAddr" THEN -1
    ELSE IF fault = "xrInitializeLoaderKHR" THEN -2
    ELSE 0

(***************************************************************************)
(* OpenXr::InitInstance.                                                   *)
(***************************************************************************)
InstanceFaults == {"none", "enumerateCount", "enumerateProperties", "xrCreateInstance"}

InstanceResult(ret, names, count, info) ==
    [ret |-> ret, mEnabledExtensions |-> names, mEnabledExtensionCount |-> count,
     createInfo |-> info]

\* the XrInstanceCreateInfo handed to xrCreateInstance, if it was called
CreateInfo(count, names) ==
    [called |-> TRUE, enabledExtensionCount |-> count, enabledExtensionNames |-> names]

NoCreateInfo ==
    [called |-> FALSE, enabledExtensionCount |-> 0, enabledExtensionNames |-> <<>>]

\* enables every optional extension, listed by the runtime or not
InitInstanceEnablesAllOptional(props, fault) ==
    LET requiredExtCount == Len(REQUIRED_EXTENSIONS)
        count == requiredExtCount + Len(OPTIONAL_EXTENSIONS)
        names == REQUIRED_EXTENSIONS \o OPTIONAL_EXTENSIONS
    IN  IF fault = "enumerateCount" THEN InstanceResult(-1, <<>>, 0, NoCreateInfo)
        ELSE IF Len(props) = 0 THEN InstanceResult(-1, <<>>, 0, NoCreateInfo)
        ELSE IF fault = "enumerateProperties" THEN InstanceResult(-2, <<>>, 0, NoCreateInfo)
        ELSE IF \E i \in 1 .. requiredExtCount : ~Listed(REQUIRED_EXTENSIONS[i], props)
             THEN InstanceResult(-3, <<>>, 0, NoCreateInfo)
        ELSE IF fault = "xrCreateInstance"
             THEN InstanceResult(-4, names, count, CreateInfo(count, names))
        ELSE InstanceResult(0, names, count, CreateInfo(count, names))

InitInstance(props, fault) ==
    LET requiredExtCount == Len(REQUIRED_EXTENSIONS)
        optionalExtCount == Len(OPTIONAL_EXTENSIONS)
        \* the counting loop
        count == requiredExtCount
                 + Cardinality({i \in 1 .. optionalExtCount :
                                   Listed(OPTIONAL_EXTENSIONS[i], props)})
        \* the two filling loops
        names == REQUIRED_EXTENSIONS
                 \o SelectSeq(OPTIONAL_EXTENSIONS, LAMBDA n : Listed(n, props))
    IN  IF fault = "enumerateCount" THEN InstanceResult(-1, <<>>, 0, NoCreateInfo)
        ELSE IF Len(props) = 0 THEN InstanceResult(-1, <<>>, 0, NoCreateInfo)
        ELSE IF fault = "enumerateProperties" THEN InstanceResult(-2, <<>>, 0, NoCreateInfo)
        ELSE IF \E i \in 1 .. requiredExtCount : ~Listed(REQUIRED_EXTENSIONS[i], props)
             THEN InstanceResult(-3, <<>>, 0, NoCreateInfo)
        ELSE IF fault = "xrCreateInstance"
             THEN InstanceResult(-4, names, count, CreateInfo(count, names))
        ELSE InstanceResult(0, names, count, CreateInfo(count, names))

(***************************************************************************)
(* OpenXr::InitSystem.                                                     *)
(***************************************************************************)
SystemFaults == {"none", "xrGetSystem", "xrGetSystemProperties"}

InitSystem(fault) ==
    IF fault = "xrGetSystem" THEN -1
    ELSE IF fault = "xrGetSystemProperties" THEN -2
    ELSE 0

(***************************************************************************)
(* OpenXr::InitSession.  Without a current context glGetIntegerv leaves    *)
(* major and minor at 0.  The runtime refuses a binding whose context is   *)
(* EGL_NO_CONTEXT.                                                         *)
(***************************************************************************)
SessionFaults == {"none", "xrGetInstanceProcAddr", "getGraphicsRequirements",
                  "xrCreateSession"}

\* GL_MAJOR_VERSION of the context EglContext::Init asks for
\* (EGL_CONTEXT_CLIENT_VERSION)
ContextClientVersion == 3

InitSession(egl, fault, minApiVersionSupported, maxApiVersionSupported) ==
    LET major == IF egl = "valid" THEN ContextClientVersion ELSE 0
    IN  IF fault = "xrGetInstanceProcAddr" THEN -1
        ELSE IF fault = "getGraphicsRequirements" THEN -2
        ELSE IF major < minApiVersionSupported \/ major > maxApiVersionSupported THEN -3
        ELSE IF fault = "xrCreateSession" \/ egl # "valid" THEN -4
        ELSE 0

(***************************************************************************)
(* OpenXr::InitViewConfig.                                                 *)
(***************************************************************************)
ViewConfigFaults ==
    {"none", "enumerateCount", "noConfigurations", "enumerateTypes", "noStereo",
     "getProperties", "enumerateViewsCount", "enumerateViews"}

InitViewConfig(fault) ==
    CASE fault = "enumerateCount"      -> -1
      [] fault = "noConfigurations"    -> -2
      [] fault = "enumerateTypes"      -> -3
      [] fault = "noStereo"            -> -4
      [] fault = "getProperties"       -> -5
      [] fault = "enumerateViewsCount" -> -6
      [] fault = "enumerateViews"      -> -7
      [] OTHER                         -> 0

(***************************************************************************)
(* OpenXr::InitSpaces: the return value and the spaces created before it.  *)
(***************************************************************************)
SpaceFaults ==
    {"none", "enumerateCount", "noSpaces", "enumerateTypes", "mViewSpace", "mHeadSpace",
     "mLocalSpace", "mForwardDirectionSpace", "mStageSpace"}

SpacesResult(ret, created) == [ret |-> ret, created |-> created]

InitSpaces(fault, hasStageSpace) ==
    CASE fault = "enumerateCount" -> SpacesResult(-1, <<>>)
      [] fault = "noSpaces"       -> SpacesResult(-2, <<>>)
      [] fault = "enumerateTypes" -> SpacesResult(-3, <<>>)
      [] fault = "mViewSpace"     -> SpacesResult(-4, <<>>)
      [] fault = "mHeadSpace"     -> SpacesResult(-5, <<"mViewSpace">>)
      [] fault = "mLocalSpace"    -> SpacesResult(-6, <<"mViewSpace", "mHeadSpace">>)
      [] fault = "mForwardDirectionSpace" ->
            SpacesResult(-7, <<"mViewSpace", "mHeadSpace", "mLocalSpace">>)
      [] fault = "mStageSpace" /\ hasStageSpace ->
            SpacesResult(-8, <<"mViewSpace", "mHeadSpace", "mLocalSpace",
                               "mForwardDirectionSpace">>)
      [] OTHER ->
            SpacesResult(0, <<"mViewSpace", "mHeadSpace", "mLocalSpace",
                              "mForwardDirectionSpace">>
                            \o (IF hasStageSpace THEN <<"mStageSpace">> ELSE <<>>))

(***************************************************************************)
(* OpenXr::DestroySession, OpenXr::DestroyInstance on the handles          *)
(* h = [mInstance, mSession, live, released].  The runtime destroys the    *)
(* children of a handle with it, youngest first.                           *)
(***************************************************************************)
SpaceNames == {"mViewSpace", "mHeadSpace", "mLocalSpace", "mForwardDirectionSpace",
               "mStageSpace"}

\* what the runtime destroys with a session: the spaces made from it, those
\* whose handle the program no longer holds ("orphan") included
SessionChildren == SpaceNames \cup {"orphan"}

Handles(inst, sess, liv, rel) ==
    [mInstance |-> inst, mSession |-> sess, live |-> liv, released |-> rel]

\* mSessionState stays XR_SESSION_STATE_UNKNOWN, so xrEndSession is not called
DestroySession(h) ==
    IF h.mSession
    THEN LET gone == SelectSeq(h.live, LAMBDA r : r \in SessionChildren \cup {"session"})
         IN  Handles(h.mInstance, FALSE,
                     SelectSeq(h.live,
                               LAMBDA r : r \notin SessionChildren \cup {"session"}),
                     h.released \o Reverse(gone))
    ELSE h

DestroyInstance(h) ==
    IF h.mInstance
    THEN LET gone == SelectSeq(h.live, LAMBDA r : r # "egl")
         IN  Handles(FALSE, h.mSession, SelectSeq(h.live, LAMBDA r : r = "egl"),
                     h.released \o Reverse(gone))
    ELSE h

(***************************************************************************)
(* OpenXr::Init: what is torn down when the given step fails.              *)
(***************************************************************************)
InitUnwind(step, h) ==
    CASE step \in {"system", "egl", "session"} -> DestroyInstance(h)
      [] step \in {"viewconfig", "spaces"}     -> DestroyInstance(DestroySession(h))
      [] OTHER                                 -> h

StepOrder == <<"loader", "instance", "system", "egl", "session", "viewconfig", "spaces">>

CurrentHandles == Handles(mInstance, mSession, live, released)

\* Init returns `ret` because `step` failed
InitFails(step, ret) ==
    LET h == InitUnwind(step, CurrentHandles)
    IN  /\ ipc' = "returned"
        /\ initResult' = ret
        /\ failedStep' = step
        /\ mInstance' = h.mInstance
        /\ mSession' = h.mSession
        /\ live' = h.live
        /\ released' = h.released

StepLoader ==
    /\ ipc = "loader"
    /\ started' = Append(started, "loader")
    /\ \E fault \in LoaderFaults :
          LET result == InitLoader(fault)
          IN  IF result < 0
              THEN /\ InitFails("loader", result)
                   /\ UNCHANGED okSteps
              ELSE /\ ipc' = "instance"
                   /\ okSteps' = okSteps \cup {"loader"}
                   /\ UNCHANGED <<initResult, failedStep, mInstance, mSession, live, released>>
    /\ UNCHANGED <<extProps, mEglContext, mSpaces, mEnabledExtensions,
                   mEnabledExtensionCount, createInfo, instanceRet, acquired>>
    /\ UNCHANGED <<queueVars, appVars, lifeVars, frameVars>>

StepInstance ==
    /\ ipc = "instance"
    /\ started' = Append(started, "instance")
    /\ \E fault \in InstanceFaults :
          LET r == InitInstance(extProps, fault)
          IN  /\ mEnabledExtensions' = r.mEnabledExtensions
              /\ mEnabledExtensionCount' = r.mEnabledExtensionCount
              /\ createInfo' = r.createInfo
              /\ instanceRet' = r.ret
              /\ IF r.ret < 0
                 THEN /\ InitFails("instance", r.ret)
                      /\ UNCHANGED <<okSteps, acquired>>
                 ELSE /\ ipc' = "system"
                      /\ okSteps' = okSteps \cup {"instance"}
                      /\ mInstance' = TRUE
                      /\ acquired' = Append(acquired, "instance")
                      /\ live' = Append(live, "instance")
                      /\ UNCHANGED <<initResult, failedStep, mSession, released>>
    /\ UNCHANGED <<extProps, mEglContext, mSpaces>>
    /\ UNCHANGED <<queueVars, appVars, lifeVars, frameVars>>

StepSystem ==
    /\ ipc = "system"
    /\ started' = Append(started, "system")
    /\ \E fault \in SystemFaults :
          LET result == InitSystem(fault)
          IN  IF result < 0
              THEN /\ InitFails("system", result)
                   /\ UNCHANGED okSteps
              ELSE /\ ipc' = "egl"
                   /\ okSteps' = okSteps \cup {"system"}
                   /\ UNCHANGED <<initResult, failedStep, mInstance, mSession, live, released>>
    /\ UNCHANGED <<extProps, mEglContext, mSpaces, mEnabledExtensions,
                   mEnabledExtensionCount, createInfo, instanceRet, acquired>>
    /\ UNCHANGED <<queueVars, appVars, lifeVars, frameVars>>

(***************************************************************************)
(* EglContext (Egl.cpp).  A member is TRUE when it is not EGL_NO_DISPLAY / *)
(* EGL_NO_CONTEXT / EGL_NO_SURFACE.                                        *)
(***************************************************************************)
EglMembers(display, context, surface) ==
    [mDisplay |-> display, mContext |-> context, mDummySurface |-> surface]

NoEglMembers == EglMembers(FALSE, FALSE, FALSE)

\* the values EglContext::Init returns
EglFaults == {0, -1, -2, -3, -4, -5, -6, -7}

\* the members EglContext::Init leaves behind when it returns `ret`
EglContextInit(ret) ==
    EglMembers(ret # -1, ret \in {0, -6, -7}, ret \in {0, -7})

EglShutdownResult(members, calls) == [egl |-> members, calls |-> calls]

EglContextShutdown(e) ==
    EglShutdownResult(
        EglMembers(FALSE,
                   e.mContext /\ ~e.mDisplay,
                   e.mDummySurface /\ ~e.mDisplay),
        (IF e.mContext /\ e.mDisplay THEN <<"eglMakeCurrent">> ELSE <<>>)
        \o (IF e.mDummySurface /\ e.mDisplay THEN <<"eglDestroySurface">> ELSE <<>>)
        \o (IF e.mContext /\ e.mDisplay THEN <<"eglDestroyContext">> ELSE <<>>)
        \o (IF e.mDisplay THEN <<"eglTerminate">> ELSE <<>>))

\* EglContext::EglContext(): Init, and Shutdown when Init failed
EglContextNew(ret) ==
    IF ret < 0 THEN EglContextShutdown(EglContextInit(ret)).egl ELSE EglContextInit(ret)

\* std::make_unique<EglContext>(): never null; the constructor leaves the
\* context invalid when EglContext::Init fails.  Init tests the pointer only.
MakeEglContext(eglInitOk) == IF eglInitOk THEN "valid" ELSE "invalid"

StepEgl ==
    /\ ipc = "egl"
    /\ started' = Append(started, "egl")
    /\ \E ret \in EglFaults :
          LET ctx == MakeEglContext(EglContextNew(ret).mContext)
          IN  /\ mEglContext' = ctx
              /\ eglContext' = EglContextNew(ret)
              /\ torn' = IF ret < 0 THEN torn \cup {"EglContext"} ELSE torn
              /\ acquired' = IF ctx = "valid" THEN Append(acquired, "egl") ELSE acquired
              /\ IF ctx = "null"
                 THEN /\ InitFails("egl", -7)
                      /\ UNCHANGED okSteps
                 ELSE /\ ipc' = "session"
                      /\ okSteps' = IF ctx = "valid" THEN okSteps \cup {"egl"} ELSE okSteps
                      /\ live' = IF ctx = "valid" THEN Append(live, "egl") ELSE live
                      /\ UNCHANGED <<initResult, failedStep, mInstance, mSession, released>>
    /\ UNCHANGED <<extProps, mSpaces, mEnabledExtensions, mEnabledExtensionCount,
                   createInfo, instanceRet>>
    /\ UNCHANGED <<fb, swapchainFormats, glObjects, swapchains, vrAppGone, fbOps,
                   sessionStarts, shutdownCalls, lastOp, repeated>>
    /\ UNCHANGED <<queueVars, appVars, frameVars>>

\* the OpenGL ES versions a runtime may ask for (major numbers)
MinApiVersions == {0, 3}

MaxApiVersions == {3}

StepSession ==
    /\ ipc = "session"
    /\ started' = Append(started, "session")
    /\ \E fault \in SessionFaults, lo \in MinApiVersions, hi \in MaxApiVersions :
          LET result == InitSession(mEglContext, fault, lo, hi)
          IN  IF result < 0
              THEN /\ InitFails("session", result)
                   /\ UNCHANGED <<okSteps, acquired>>
              ELSE /\ ipc' = "viewconfig"
                   /\ okSteps' = okSteps \cup {"session"}
                   /\ mSession' = TRUE
                   /\ acquired' = Append(acquired, "session")
                   /\ live' = Append(live, "session")
                   /\ UNCHANGED <<initResult, failedStep, mInstance, released>>
    /\ UNCHANGED <<extProps, mEglContext, mSpaces, mEnabledExtensions,
                   mEnabledExtensionCount, createInfo, instanceRet>>
    /\ UNCHANGED <<queueVars, appVars, lifeVars, frameVars>>

StepViewConfig ==
    /\ ipc = "viewconfig"
    /\ started' = Append(started, "viewconfig")
    /\ \E fault \in ViewConfigFaults :
          LET result == InitViewConfig(fault)
          IN  IF result < 0
              THEN /\ InitFails("viewconfig", result)
                   /\ UNCHANGED okSteps
              ELSE /\ ipc' = "spaces"
                   /\ okSteps' = okSteps \cup {"viewconfig"}
                   /\ UNCHANGED <<initResult, failedStep, mInstance, mSession, live, released>>
    /\ UNCHANGED <<extProps, mEglContext, mSpaces, mEnabledExtensions,
                   mEnabledExtensionCount, createInfo, instanceRet, acquired>>
    /\ UNCHANGED <<queueVars, appVars, lifeVars, frameVars>>

StepSpaces ==
    /\ ipc = "spaces"
    /\ started' = Append(started, "spaces")
    /\ \E fault \in SpaceFaults, hasStageSpace \in BOOLEAN :
          LET r == InitSpaces(fault, hasStageSpace)
              h == InitUnwind("spaces",
                              Handles(mInstance, mSession, live \o r.created, released))
          IN  /\ mSpaces' = r.created
              /\ acquired' = acquired \o r.created
              /\ IF r.ret < 0
                 THEN /\ ipc' = "returned"
                      /\ initResult' = r.ret
                      /\ failedStep' = "spaces"
                      /\ mInstance' = h.mInstance
                      /\ mSession' = h.mSession
                      /\ live' = h.live
                      /\ released' = h.released
                      /\ UNCHANGED okSteps
                 ELSE /\ ipc' = "returned"
                      /\ initResult' = 0
                      /\ okSteps' = okSteps \cup {"spaces"}
                      /\ live' = live \o r.created
                      /\ UNCHANGED <<failedStep, mInstance, mSession, released>>
    /\ UNCHANGED <<extProps, mEglContext, mEnabledExtensions, mEnabledExtensionCount,
                   createInfo, instanceRet>>
    /\ UNCHANGED <<queueVars, appVars, lifeVars, frameVars>>

\* the state a fresh OpenXr object is in; the runtime lists `props`
InitStart(props) ==
    /\ ipc = "loader"
    /\ initResult = 0
    /\ extProps = props
    /\ mInstance = FALSE
    /\ mSession = FALSE
    /\ mEglContext = "null"
    /\ mSpaces = <<>>
    /\ mEnabledExtensions = <<>>
    /\ mEnabledExtensionCount = 0
    /\ createInfo = NoCreateInfo
    /\ instanceRet = 0
    /\ started = <<>>
    /\ okSteps = {}
    /\ failedStep = "none"
    /\ acquired = <<>>
    /\ live = <<>>
    /\ released = <<>>

\* Init's variables while another component is exercised
InitFrozen == InitStart(<<>>)

(***************************************************************************)
(* Framebuffer (Framebuffer.cpp).  The lists hold GL names: 0 is no name,  *)
(* 1 a generated one.  mHeight follows mWidth and is left out.             *)
(***************************************************************************)
\* swapchain images a runtime hands out: 1 .. MaxImages
MaxImages == 2
\* Create and Destroy calls made on the framebuffer before its destructor
MaxFbOps == 3
\* session starts (first frame of an activation) before the loop ends
MaxSessionStarts == 2
\* OpenXr::Shutdown calls: ThreadFnJNI's, then the destructor's
MaxShutdowns == 2

ColorFormats == {"GL_SRGB8_ALPHA8", "GL_RGBA8"}

FramebufferMembers(handle, images, depth, frame, msaa, width, samples, multiview, length) ==
    [mHandle |-> handle, mColorSwapChainImages |-> images, mDepthBuffers |-> depth,
     mFrameBuffers |-> frame, mMsaaColorBuffers |-> msaa, mWidth |-> width,
     mMultisamples |-> samples, mUseMultiview |-> multiview,
     mTextureSwapChainLength |-> length]

\* Framebuffer::Framebuffer()
NewFramebuffer == FramebufferMembers(FALSE, 0, <<>>, <<>>, <<>>, 0, 0, FALSE, 0)

\* std::vector::resize(n, 0)
Resize(list, n) == [i \in 1 .. n |-> IF i <= Len(list) THEN list[i] ELSE 0]

RECURSIVE Repeat(_, _)
Repeat(seq, n) == IF n = 0 THEN <<>> ELSE seq \o Repeat(seq, n - 1)

Names(list) == Cardinality({i \in 1 .. Len(list) : list[i] # 0})

CreateResult(f, ret, calls, names, chains) ==
    [fb |-> f, ret |-> ret, calls |-> calls, names |-> names, chains |-> chains]

\* what Create does once the format has been accepted: `length` images come
\* back, and the framebuffer of image `incompleteAt` is incomplete (0: none)
CreateSwapchainAndBuffers(f, length, incompleteAt) ==
    LET done  == IF incompleteAt = 0 THEN length ELSE incompleteAt
        msaa  == ~f.mUseMultiview /\ f.mMultisamples > 1
        depth == Resize(f.mDepthBuffers, length)
        frame == Resize(f.mFrameBuffers, length)
        color == Resize(f.mMsaaColorBuffers, length)
        each  == <<"glGenRenderbuffers", "glGenFramebuffers">>
                     \o (IF msaa THEN <<"glGenRenderbuffers">> ELSE <<>>)
    IN  CreateResult(
            [f EXCEPT !.mHandle = TRUE,
                      !.mTextureSwapChainLength = length,
                      !.mColorSwapChainImages = length,
                      !.mDepthBuffers = [i \in 1 .. length |->
                                            IF i <= done THEN 1 ELSE depth[i]],
                      !.mFrameBuffers = [i \in 1 .. length |->
                                            IF i <= done THEN 1 ELSE frame[i]],
                      !.mMsaaColorBuffers = [i \in 1 .. length |->
                                            IF i <= done /\ ~f.mUseMultiview
                                            THEN (IF msaa THEN 1 ELSE 0)
                                            ELSE color[i]]],
            incompleteAt = 0,
            <<"xrCreateSwapchain", "xrEnumerateSwapchainImages",
              "xrEnumerateSwapchainImages">> \o Repeat(each, done),
            done * Len(each),
            1)

\* a Create without the test of the colour format
FramebufferCreateAnyFormat(f, formats, colorFormat, width, multisamples, useMultiview, multiviewLoaded, length, incompleteAt) ==
    LET f1 == [f EXCEPT !.mWidth = width, !.mMultisamples = multisamples,
                        !.mUseMultiview = useMultiview /\ multiviewLoaded]
        r  == CreateSwapchainAndBuffers(f1, length, incompleteAt)
    IN  CreateResult(r.fb, r.ret,
                     <<"xrEnumerateSwapchainFormats", "xrEnumerateSwapchainFormats">>
                         \o r.calls,
                     r.names, r.chains)

\* a Create that keeps multiview as requested, whatever the GL offers
FramebufferCreateNoFallback(f, formats, colorFormat, width, multisamples, useMultiview, multiviewLoaded, length, incompleteAt) ==
    LET f1 == [f EXCEPT !.mWidth = width, !.mMultisamples = multisamples,
                        !.mUseMultiview = useMultiview]
        formatSupported == colorFormat \in formats
        enumerate == <<"xrEnumerateSwapchainFormats", "xrEnumerateSwapchainFormats">>
    IN  IF ~formatSupported
        THEN CreateResult(f1, FALSE, enumerate, 0, 0)
        ELSE LET r == CreateSwapchainAndBuffers(f1, length, incompleteAt)
             IN  CreateResult(r.fb, r.ret, enumerate \o r.calls, r.names, r.chains)

\* Framebuffer::Create.  `formats` is the runtime's list, `multiviewLoaded`
\* tells whether glFramebufferTextureMultiviewOVR and GL_OVR_multiview2 exist.
FramebufferCreate(f, formats, colorFormat, width, multisamples, useMultiview, multiviewLoaded, length, incompleteAt) ==
    LET f1 == [f EXCEPT !.mWidth = width, !.mMultisamples = multisamples,
                        !.mUseMultiview = useMultiview /\ multiviewLoaded]
        formatSupported == colorFormat \in formats
        enumerate == <<"xrEnumerateSwapchainFormats", "xrEnumerateSwapchainFormats">>
    IN  IF ~formatSupported
        THEN CreateResult(f1, FALSE, enumerate, 0, 0)
        ELSE LET r == CreateSwapchainAndBuffers(f1, length, incompleteAt)
             IN  CreateResult(r.fb, r.ret, enumerate \o r.calls, r.names, r.chains)

DestroyResult(f, calls, names, chains) ==
    [fb |-> f, calls |-> calls, names |-> names, chains |-> chains]

\* a Destroy that does not test the swapchain handle
FramebufferDestroyAnyHandle(f) ==
    DestroyResult(NewFramebuffer,
        (IF f.mFrameBuffers # <<>> THEN <<"glDeleteFramebuffers">> ELSE <<>>)
        \o (IF f.mDepthBuffers # <<>> THEN <<"glDeleteRenderbuffers">> ELSE <<>>)
        \o (IF f.mMsaaColorBuffers # <<>> THEN <<"glDeleteRenderbuffers">> ELSE <<>>)
        \o <<"xrDestroySwapchain">>,
        Names(f.mFrameBuffers) + Names(f.mDepthBuffers) + Names(f.mMsaaColorBuffers),
        IF f.mHandle THEN 1 ELSE 0)

\* Framebuffer::Destroy (also the destructor)
FramebufferDestroy(f) ==
    DestroyResult(NewFramebuffer,
        (IF f.mFrameBuffers # <<>> THEN <<"glDeleteFramebuffers">> ELSE <<>>)
        \o (IF f.mDepthBuffers # <<>> THEN <<"glDeleteRenderbuffers">> ELSE <<>>)
        \o (IF f.mMsaaColorBuffers # <<>> THEN <<"glDeleteRenderbuffers">> ELSE <<>>)
        \o (IF f.mHandle THEN <<"xrDestroySwapchain">> ELSE <<>>),
        Names(f.mFrameBuffers) + Names(f.mDepthBuffers) + Names(f.mMsaaColorBuffers),
        IF f.mHandle THEN 1 ELSE 0)

\* the arguments of a Create, what the GL offered it, and sci.arraySize
SwapchainInfo(multisamples, useMultiview, entryPoint, extension, arraySize) ==
    [multisamples |-> multisamples, useMultiview |-> useMultiview,
     entryPoint |-> entryPoint, extension |-> extension, arraySize |-> arraySize]

NoSwapchainInfo == SwapchainInfo(0, FALSE, FALSE, FALSE, 0)

Op(name, calls, ret, supported, destroyed, implicit) ==
    [name |-> name, calls |-> calls, ret |-> ret, supported |-> supported,
     destroyed |-> destroyed, implicit |-> implicit, sci |-> NoSwapchainInfo]

\* sci.arraySize of the swapchain Create asks the runtime for
SwapchainArraySize(f) == IF f.mUseMultiview THEN 2 ELSE 1

NoOp == Op("none", <<>>, FALSE, FALSE, <<>>, <<>>)

\* Init has succeeded and the VrApp of ThreadFnJNI is alive
VrAppAlive ==
    /\ ipc = "returned"
    /\ failedStep = "none"
    /\ ~vrAppGone
    /\ shutdownCalls = 0

\* VrApp::Init creates each framebuffer once, on the fresh object
FbCreate ==
    /\ VrAppAlive
    /\ fbOps < MaxFbOps
    /\ ~fb.mHandle
    /\ fb.mFrameBuffers = <<>>
    /\ \E colorFormat \in ColorFormats, multisamples \in {1, 4},
          useMultiview \in BOOLEAN, entryPoint \in BOOLEAN, extension \in BOOLEAN,
          length \in 1 .. MaxImages :
          \E incompleteAt \in 0 .. length :
             LET r == FramebufferCreate(fb, swapchainFormats, colorFormat, 1,
                                        multisamples, useMultiview,
                                        entryPoint /\ extension, length, incompleteAt)
                 op == Op("Create", r.calls, r.ret,
                          colorFormat \in swapchainFormats, <<>>, <<>>)
             IN  /\ fb' = r.fb
                 /\ glObjects' = glObjects + r.names
                 /\ swapchains' = swapchains + r.chains
                 /\ lastOp' = [op EXCEPT !.sci =
                                   SwapchainInfo(multisamples, useMultiview, entryPoint,
                                                 extension,
                                                 IF r.fb.mHandle
                                                 THEN SwapchainArraySize(r.fb) ELSE 0)]
    /\ fbOps' = fbOps + 1
    /\ torn' = torn \ {"Framebuffer"}
    /\ UNCHANGED <<eglContext, swapchainFormats, vrAppGone, sessionStarts, shutdownCalls,
                   repeated>>
    /\ UNCHANGED <<queueVars, appVars, initVars, frameVars>>

\* what a call of Destroy does to the variables
DestroyFramebuffer ==
    LET r == FramebufferDestroy(fb)
    IN  /\ fb' = r.fb
        /\ glObjects' = glObjects - r.names
        /\ swapchains' = swapchains - r.chains
        /\ lastOp' = Op("Destroy", r.calls, FALSE, FALSE, <<>>, <<>>)
        /\ fbOps' = fbOps + 1
        /\ torn' = torn \cup {"Framebuffer"}
        /\ repeated' = IF "Framebuffer" \in torn
                       THEN repeated \cup {"Framebuffer"} ELSE repeated

FbDestroy ==
    /\ VrAppAlive
    /\ fbOps < MaxFbOps
    /\ DestroyFramebuffer
    /\ UNCHANGED <<eglContext, swapchainFormats, vrAppGone, sessionStarts, shutdownCalls>>
    /\ UNCHANGED <<queueVars, appVars, initVars, frameVars>>

\* the VrApp temporary of ThreadFnJNI goes away: ~Framebuffer() runs Destroy
VrAppEnd ==
    /\ VrAppAlive
    /\ DestroyFramebuffer
    /\ vrAppGone' = TRUE
    /\ UNCHANGED <<eglContext, swapchainFormats, sessionStarts, shutdownCalls>>
    /\ UNCHANGED <<queueVars, appVars, initVars, frameVars>>

(***************************************************************************)
(* CreateRuntimeInitiatedReferenceSpaces (VrApp.cpp), run by Frame on the  *)
(* first frame of every activation: three spaces are created and their     *)
(* handles stored over the members, whose old handles are not destroyed.   *)
(***************************************************************************)
RuntimeInitiatedSpaces == <<"mForwardDirectionSpace", "mViewSpace", "mHeadSpace">>

CreateRuntimeInitiatedReferenceSpaces ==
    /\ VrAppAlive
    /\ sessionStarts < MaxSessionStarts
    /\ sessionStarts' = sessionStarts + 1
    /\ live' = [i \in 1 .. Len(live) |->
                   IF live[i] \in Range(RuntimeInitiatedSpaces)
                   THEN "orphan" ELSE live[i]] \o RuntimeInitiatedSpaces
    /\ acquired' = acquired \o RuntimeInitiatedSpaces
    /\ UNCHANGED <<ipc, initResult, extProps, mInstance, mSession, mEglContext, mSpaces,
                   mEnabledExtensions, mEnabledExtensionCount, createInfo, instanceRet,
                   started, okSteps, failedStep, released>>
    /\ UNCHANGED <<eglContext, fb, swapchainFormats, glObjects, swapchains, vrAppGone, fbOps,
                   shutdownCalls, lastOp, torn, repeated>>
    /\ UNCHANGED <<queueVars, appVars, frameVars>>

(***************************************************************************)
(* OpenXr::Shutdown (OpenXR.cpp), also run by ~OpenXr.                     *)
(***************************************************************************)
SpaceDestroyOrder == <<"mStageSpace", "mForwardDirectionSpace", "mLocalSpace",
                       "mHeadSpace", "mViewSpace">>

\* OpenXr::DestroySpaces.  xrDestroySpace on a handle that died with its
\* session fails, and OXR() aborts.
DestroySpaces(members, h) ==
    LET held == SelectSeq(SpaceDestroyOrder, LAMBDA n : n \in Range(members))
        dead == {i \in 1 .. Len(held) : ~Contains(h.live, held[i])}
        stop == IF dead = {} THEN Len(held) + 1
                ELSE CHOOSE i \in dead : \A j \in dead : i <= j
        done == SubSeq(held, 1, stop - 1)
    IN  [h |-> Handles(h.mInstance, h.mSession,
                       SelectSeq(h.live, LAMBDA r : r \notin Range(done)),
                       h.released \o done),
         members |-> SelectSeq(members, LAMBDA n : n \notin Range(done)),
         destroyed |-> done,
         aborted |-> dead # {}]

Shutdown(h, members, context, e) ==
    LET s    == DestroySpaces(members, h)
        kids == IF s.h.mSession
                THEN SelectSeq(s.h.live, LAMBDA r : r \in SessionChildren)
                ELSE <<>>
        h2   == DestroySession(s.h)
        kin  == IF h2.mInstance
                THEN SelectSeq(h2.live, LAMBDA r : r \notin {"instance", "egl"})
                ELSE <<>>
        h3   == DestroyInstance(h2)
        es   == IF context # "null" THEN EglContextShutdown(e)
                ELSE EglShutdownResult(e, <<>>)
        gone == Contains(h3.live, "egl")
    IN  IF s.aborted
        THEN [h |-> s.h, members |-> s.members, context |-> context, egl |-> e,
              aborted |-> TRUE,
              op |-> Op("Shutdown", Repeat(<<"xrDestroySpace">>, Len(s.destroyed) + 1),
                        FALSE, FALSE, s.destroyed, <<>>)]
        ELSE [h |-> Handles(FALSE, FALSE,
                            SelectSeq(h3.live, LAMBDA r : r # "egl"),
                            h3.released \o (IF gone THEN <<"egl">> ELSE <<>>)),
              members |-> s.members,
              context |-> "null",
              egl |-> IF context # "null" THEN NoEglMembers ELSE e,
              aborted |-> FALSE,
              op |-> Op("Shutdown",
                        Repeat(<<"xrDestroySpace">>, Len(s.destroyed))
                            \o (IF s.h.mSession THEN <<"xrDestroySession">> ELSE <<>>)
                            \o (IF h2.mInstance THEN <<"xrDestroyInstance">> ELSE <<>>)
                            \o es.calls,
                        FALSE, FALSE,
                        s.destroyed
                            \o (IF s.h.mSession THEN <<"session">> ELSE <<>>)
                            \o (IF h2.mInstance THEN <<"instance">> ELSE <<>>)
                            \o (IF gone THEN <<"egl">> ELSE <<>>),
                        kids \o kin)]

\* gOpenXr->Shutdown() of ThreadFnJNI, which follows the VrApp's destruction,
\* and the Shutdown of ~OpenXr
ShutdownCall ==
    /\ ipc = "returned"
    /\ failedStep = "none" => vrAppGone
    /\ shutdownCalls < MaxShutdowns
    /\ shutdownCalls' = shutdownCalls + 1
    /\ LET r == Shutdown(CurrentHandles, mSpaces, mEglContext, eglContext)
       IN  /\ ipc' = IF r.aborted THEN "aborted" ELSE ipc
           /\ mInstance' = r.h.mInstance
           /\ mSession' = r.h.mSession
           /\ live' = r.h.live
           /\ released' = r.h.released
           /\ mSpaces' = r.members
           /\ mEglContext' = r.context
           /\ eglContext' = r.egl
           /\ lastOp' = r.op
           /\ mEnabledExtensions' = IF r.aborted THEN mEnabledExtensions ELSE <<>>
           /\ mEnabledExtensionCount' = IF r.aborted THEN mEnabledExtensionCount ELSE 0
           /\ torn' = IF r.aborted THEN torn
                      ELSE torn \cup {"OpenXr"}
                               \cup (IF mEglContext # "null" THEN {"EglContext"} ELSE {})
           /\ repeated' = IF r.aborted THEN repeated
                          ELSE repeated
                                 \cup (IF "OpenXr" \in torn THEN {"OpenXr"} ELSE {})
                                 \cup (IF mEglContext # "null" /\ "EglContext" \in torn
                                       THEN {"EglContext"} ELSE {})
    /\ UNCHANGED <<initResult, extProps, createInfo, instanceRet, started, okSteps,
                   failedStep, acquired>>
    /\ UNCHANGED <<fb, swapchainFormats, glObjects, swapchains, vrAppGone, fbOps,
                   sessionStarts>>
    /\ UNCHANGED <<queueVars, appVars, frameVars>>

\* the teardown variables of a fresh process; the runtime lists `formats`
LifeStart(formats) ==
    /\ eglContext = NoEglMembers
    /\ fb = NewFramebuffer
    /\ swapchainFormats = formats
    /\ glObjects = 0
    /\ swapchains = 0
    /\ vrAppGone = FALSE
    /\ fbOps = 0
    /\ sessionStarts = 0
    /\ shutdownCalls = 0
    /\ lastOp = NoOp
    /\ torn = {}
    /\ repeated = {}

\* the teardown variables while another component is exercised
LifeFrozen == LifeStart({})

(***************************************************************************)
(* Controller input (VrController.cpp).  Of InputStateFrame the model      *)
(* keeps the preferred hand and what it is derived from: the hands' active *)
(* flags, the index triggers and the position-valid bit of the located     *)
(* hand poses.                                                             *)
(***************************************************************************)
Hands == {"LEFT_CONTROLLER", "RIGHT_CONTROLLER"}

OtherHand(hand) == IF hand = "LEFT_CONTROLLER" THEN "RIGHT_CONTROLLER" ELSE "LEFT_CONTROLLER"

\* XrActionStateBoolean, as xrGetActionStateBoolean fills it
ActionStateBoolean(changed, current) ==
    [changedSinceLastSync |-> changed, currentState |-> current]

ActionStates == {ActionStateBoolean(c, s) : c \in BOOLEAN, s \in BOOLEAN}

InputStateFrame(preferred, active, triggers, positions) ==
    [mPreferredHand |-> preferred, mIsHandActive |-> active,
     mIndexTriggerState |-> triggers, mHandPositions |-> positions]

\* the member initializers of InputStateFrame
NewInputStateFrame ==
    InputStateFrame("RIGHT_CONTROLLER", [h \in Hands |-> FALSE],
                    [h \in Hands |-> ActionStateBoolean(FALSE, FALSE)],
                    [h \in Hands |-> FALSE])

InputSynced(inputFrame, spaces) == [frame |-> inputFrame, spaces |-> spaces]

\* InputStateFrame::SyncButtonsAndThumbSticks, every runtime call succeeding:
\* `triggers` and `isActive` are what the runtime reports per hand
SyncButtonsAndThumbSticksFrame(inputFrame, spaces, triggers, isActive) ==
    LET created == [h \in Hands |-> TRUE]
    IN  InputSynced(
            [inputFrame EXCEPT
                !.mIndexTriggerState = triggers,
                !.mIsHandActive = [h \in Hands |->
                    IF created[h] THEN isActive[h] ELSE inputFrame.mIsHandActive[h]]],
            created)

\* a SyncHandPoses that takes a hand for active whatever its located position
SyncHandPosesFrameIgnoresPosition(inputFrame, spaces, located) ==
    LET positions == [h \in Hands |->
                         IF spaces[h] THEN located[h] ELSE inputFrame.mHandPositions[h]]
        leftActive  == inputFrame.mIsHandActive["LEFT_CONTROLLER"]
        rightActive == inputFrame.mIsHandActive["RIGHT_CONTROLLER"]
        trigger == inputFrame.mIndexTriggerState
        preferred ==
            IF leftActive /\ ~rightActive THEN "LEFT_CONTROLLER"
            ELSE IF ~leftActive /\ rightActive THEN "RIGHT_CONTROLLER"
            ELSE IF leftActive /\ rightActive
                 THEN IF trigger["LEFT_CONTROLLER"].changedSinceLastSync
                         /\ trigger["LEFT_CONTROLLER"].currentState
                      THEN "LEFT_CONTROLLER"
                      ELSE IF trigger["RIGHT_CONTROLLER"].changedSinceLastSync
                              /\ trigger["RIGHT_CONTROLLER"].currentState
                           THEN "RIGHT_CONTROLLER"
                           ELSE inputFrame.mPreferredHand
                 ELSE inputFrame.mPreferredHand
    IN  [inputFrame EXCEPT !.mHandPositions = positions, !.mPreferredHand = preferred]

\* a SyncHandPoses for which a pressed trigger counts, changed or not
SyncHandPosesFramePressedCounts(inputFrame, spaces, located) ==
    LET positions == [h \in Hands |->
                         IF spaces[h] THEN located[h] ELSE inputFrame.mHandPositions[h]]
        active == [h \in Hands |-> inputFrame.mIsHandActive[h] /\ positions[h]]
        leftActive  == active["LEFT_CONTROLLER"]
        rightActive == active["RIGHT_CONTROLLER"]
        trigger == inputFrame.mIndexTriggerState
        preferred ==
            IF leftActive /\ ~rightActive THEN "LEFT_CONTROLLER"
            ELSE IF ~leftActive /\ rightActive THEN "RIGHT_CONTROLLER"
            ELSE IF leftActive /\ rightActive
                 THEN IF trigger["LEFT_CONTROLLER"].currentState
                      THEN "LEFT_CONTROLLER"
                      ELSE IF trigger["RIGHT_CONTROLLER"].currentState
                           THEN "RIGHT_CONTROLLER"
                           ELSE inputFrame.mPreferredHand
                 ELSE inputFrame.mPreferredHand
    IN  [inputFrame EXCEPT !.mHandPositions = positions, !.mIsHandActive = active,
                           !.mPreferredHand = preferred]

\* a SyncHandPoses that falls back to the right hand when no hand is active
SyncHandPosesFrameResets(inputFrame, spaces, located) ==
    LET positions == [h \in Hands |->
                         IF spaces[h] THEN located[h] ELSE inputFrame.mHandPositions[h]]
        active == [h \in Hands |-> inputFrame.mIsHandActive[h] /\ positions[h]]
        leftActive  == active["LEFT_CONTROLLER"]
        rightActive == active["RIGHT_CONTROLLER"]
        trigger == inputFrame.mIndexTriggerState
        preferred ==
            IF leftActive /\ ~rightActive THEN "LEFT_CONTROLLER"
            ELSE IF ~leftActive /\ rightActive THEN "RIGHT_CONTROLLER"
            ELSE IF leftActive /\ rightActive
                 THEN IF trigger["LEFT_CONTROLLER"].changedSinceLastSync
                         /\ trigger["LEFT_CONTROLLER"].currentState
                      THEN "LEFT_CONTROLLER"
                      ELSE IF trigger["RIGHT_CONTROLLER"].changedSinceLastSync
                              /\ trigger["RIGHT_CONTROLLER"].currentState
                           THEN "RIGHT_CONTROLLER"
                           ELSE inputFrame.mPreferredHand
                 ELSE "RIGHT_CONTROLLER"
    IN  [inputFrame EXCEPT !.mHandPositions = positions, !.mIsHandActive = active,
                           !.mPreferredHand = preferred]

\* InputStateFrame::SyncHandPoses, every xrLocateSpace succeeding: `located`
\* tells per hand whether the location has XR_SPACE_LOCATION_POSITION_VALID_BIT
SyncHandPosesFrame(inputFrame, spaces, located) ==
    LET positions == [h \in Hands |->
                         IF spaces[h] THEN located[h] ELSE inputFrame.mHandPositions[h]]
        active == [h \in Hands |-> inputFrame.mIsHandActive[h] /\ positions[h]]
        leftActive  == active["LEFT_CONTROLLER"]
        rightActive == active["RIGHT_CONTROLLER"]
        trigger == inputFrame.mIndexTriggerState
        preferred ==
            IF leftActive /\ ~rightActive THEN "LEFT_CONTROLLER"
            ELSE IF ~leftActive /\ rightActive THEN "RIGHT_CONTROLLER"
            ELSE IF leftActive /\ rightActive
                 THEN IF trigger["LEFT_CONTROLLER"].changedSinceLastSync
                         /\ trigger["LEFT_CONTROLLER"].currentState
                      THEN "LEFT_CONTROLLER"
                      ELSE IF trigger["RIGHT_CONTROLLER"].changedSinceLastSync
                              /\ trigger["RIGHT_CONTROLLER"].currentState
                           THEN "RIGHT_CONTROLLER"
                           ELSE inputFrame.mPreferredHand
                 ELSE inputFrame.mPreferredHand
    IN  [inputFrame EXCEPT !.mHandPositions = positions, !.mIsHandActive = active,
                           !.mPreferredHand = preferred]

\* MainLoop's call of SyncButtonsAndThumbSticks; a runtime call that fails
\* ends the process (OXR)
TickSyncButtons ==
    /\ inputPc = "buttons"
    /\ \E ok \in BOOLEAN :
          IF ok
          THEN \E triggers \in [Hands -> ActionStates], isActive \in [Hands -> BOOLEAN] :
                  LET r == SyncButtonsAndThumbSticksFrame(mInputStateFrame, mHandSpaces,
                                                          triggers, isActive)
                  IN  /\ mInputStateFrame' = r.frame
                      /\ mHandSpaces' = r.spaces
                      /\ poseActive' = isActive
                      /\ inputPc' = "poses"
          ELSE /\ inputPc' = "aborted"
               /\ UNCHANGED <<mInputStateFrame, mHandSpaces, poseActive>>
    /\ UNCHANGED <<frameBefore, posesSynced>>
    /\ UNCHANGED <<queueVars, appVars, initVars, lifeVars, renderVars>>

\* Frame's call of SyncHandPoses
TickSyncHandPoses ==
    /\ inputPc = "poses"
    /\ \E ok \in BOOLEAN :
          IF ok
          THEN \E located \in [Hands -> BOOLEAN] :
                  /\ mInputStateFrame' =
                         SyncHandPosesFrame(mInputStateFrame, mHandSpaces, located)
                  /\ frameBefore' = mInputStateFrame
                  /\ posesSynced' = TRUE
                  /\ inputPc' = "buttons"
          ELSE /\ inputPc' = "aborted"
               /\ UNCHANGED <<mInputStateFrame, frameBefore, posesSynced>>
    /\ UNCHANGED <<mHandSpaces, poseActive>>
    /\ UNCHANGED <<queueVars, appVars, initVars, lifeVars, renderVars>>

\* the input state of a fresh VrApp, its thread at `at`
InputStart(at) ==
    /\ mInputStateFrame = NewInputStateFrame
    /\ mHandSpaces = [h \in Hands |-> FALSE]
    /\ inputPc = at
    /\ poseActive = [h \in Hands |-> FALSE]
    /\ frameBefore = NewInputStateFrame
    /\ posesSynced = FALSE

(***************************************************************************)
(* The framebuffer of one eye in use (Framebuffer.cpp, VrApp::RenderScene).*)
(* VrApp::Init creates it, then every frame runs Acquire, SetCurrent and   *)
(* the drawing, Resolve, Release on it.  Image indices count from 0 as in  *)
(* the code; the sequences hold image i at position i + 1.  The colour of  *)
(* a buffer is the number of the frame drawn into it (0: none, cleared).   *)
(***************************************************************************)
\* eye iterations of RenderScene before the run ends
MaxRenderFrames == 2

\* Framebuffer::Acquire: `retries < 3`
MaxWaitRetries == 3

WaitResults == {"XR_SUCCESS", "XR_TIMEOUT_EXPIRED", "XR_ERROR_RUNTIME_FAILURE"}

FramebufferStatuses ==
    {"GL_FRAMEBUFFER_COMPLETE", "GL_FRAMEBUFFER_INCOMPLETE_MULTISAMPLE",
     "GL_FRAMEBUFFER_INCOMPLETE_ATTACHMENT"}

\* positions of the elements of `list` equal to x
Where(list, x) == {i \in 1 .. Len(list) : list[i] = x}

Validated(at, status, recreated, glComplete, complete) ==
    [at |-> at, status |-> status, recreated |-> recreated, glComplete |-> glComplete,
     complete |-> complete]

NotValidated == Validated(0, "GL_FRAMEBUFFER_COMPLETE", FALSE, TRUE, TRUE)

\* Framebuffer::Create, the completeness check of the target of image `at`:
\* `status` is what glCheckFramebufferStatus answers, the sample counts what
\* glGetRenderbufferParameteriv answers, `newStatus` what the check answers
\* after the depth buffer has been recreated.  `complete` is what Create goes
\* by, `glComplete` what the target is in the end.
ValidateFramebuffer(at, status, msaaDepthSamples, msaaColorSamples, newStatus) ==
    LET recreated == /\ status # "GL_FRAMEBUFFER_COMPLETE"
                     /\ status = "GL_FRAMEBUFFER_INCOMPLETE_MULTISAMPLE"
                     /\ msaaDepthSamples # msaaColorSamples
    IN  Validated(at, status, recreated,
                  IF recreated THEN newStatus = "GL_FRAMEBUFFER_COMPLETE"
                               ELSE status = "GL_FRAMEBUFFER_COMPLETE",
                  status = "GL_FRAMEBUFFER_COMPLETE")

\* what an Acquire did: the index it left, the results of its waits in
\* order and its runtime calls in order
Acquired(aborted, index, waits) ==
    [aborted |-> aborted, index |-> index, waits |-> waits,
     calls |-> <<"xrAcquireSwapchainImage">>
                   \o [i \in 1 .. Len(waits) |-> "xrWaitSwapchainImage"]]

NotAcquired == [ok |-> FALSE, aborted |-> FALSE, waits |-> <<>>, calls |-> <<>>]

\* the retry loop of Acquire: `result` is the last answer, `retries` the
\* retries made, `answers` what the runtime answers call by call
RECURSIVE WaitLoop(_, _, _)
WaitLoop(result, retries, answers) ==
    IF result = "XR_TIMEOUT_EXPIRED" /\ retries < MaxWaitRetries
    THEN WaitLoop(answers[retries + 2], retries + 1, answers)
    ELSE retries

\* an Acquire for which a wait that does not succeed is fatal
FramebufferAcquireFatalWait(f, index, acquireOk, given, answers) ==
    IF ~acquireOk
    THEN Acquired(TRUE, index, <<>>)
    ELSE LET retries == WaitLoop(answers[1], 0, answers)
         IN  Acquired(answers[retries + 1] # "XR_SUCCESS", given,
                      SubSeq(answers, 1, retries + 1))

\* Framebuffer::Acquire.  `acquireOk` tells whether xrAcquireSwapchainImage
\* succeeds and `given` the index it gives; `answers` are the results of
\* the xrWaitSwapchainImage calls in order.  A failed acquire ends the
\* process (OXR); the result of the waits is logged only.
FramebufferAcquire(f, index, acquireOk, given, answers) ==
    IF ~acquireOk
    THEN Acquired(TRUE, index, <<>>)
    ELSE LET retries == WaitLoop(answers[1], 0, answers)
         IN  Acquired(FALSE, given, SubSeq(answers, 1, retries + 1))

\* Framebuffer::SetCurrent binds mFrameBuffers[mTextureSwapChainIndex]
FramebufferSetCurrent(f, index) ==
    f.mFrameBuffers # <<>> /\ index < Len(f.mFrameBuffers)

Resolved(colors, depths, calls) == [colors |-> colors, depths |-> depths, calls |-> calls]

\* a Resolve that blits into the first image of the swapchain
FramebufferResolveFirstImage(f, index, tempComplete, readComplete, colors, msaaBufs, depths) ==
    IF f.mMultisamples > 1 /\ ~f.mUseMultiview
    THEN IF ~tempComplete
         THEN Resolved(colors, depths, <<"glFramebufferTexture2D">>)
         ELSE IF ~readComplete
         THEN Resolved(colors, depths, <<"glFramebufferTexture2D">>)
         ELSE Resolved([colors EXCEPT ![1] = msaaBufs[index + 1]],
                       [depths EXCEPT ![index + 1] = "invalidated"],
                       <<"glFramebufferTexture2D", "glBlitFramebuffer",
                         "glInvalidateFramebuffer">>)
    ELSE Resolved(colors, depths, <<>>)

\* Framebuffer::Resolve.  `tempComplete` and `readComplete` are the answers
\* of its two glCheckFramebufferStatus calls; `colors` are the swapchain
\* images, `msaaBufs` and `depths` the buffers of the targets.
FramebufferResolve(f, index, tempComplete, readComplete, colors, msaaBufs, depths) ==
    IF f.mMultisamples > 1 /\ ~f.mUseMultiview
    THEN IF ~tempComplete
         THEN Resolved(colors, depths, <<"glFramebufferTexture2D">>)
         ELSE IF ~readComplete
         THEN Resolved(colors, depths, <<"glFramebufferTexture2D">>)
         ELSE Resolved([colors EXCEPT ![index + 1] = msaaBufs[index + 1]],
                       [depths EXCEPT ![index + 1] = "invalidated"],
                       <<"glFramebufferTexture2D", "glBlitFramebuffer",
                         "glInvalidateFramebuffer">>)
    ELSE Resolved(colors, depths, <<>>)

\* Resolve called on the framebuffer the latest Create made, before any image
\* was acquired (mTextureSwapChainIndex is 0)
FbResolve ==
    /\ VrAppAlive
    /\ lastOp.name = "Create"
    /\ fb.mHandle
    /\ \E tempComplete \in BOOLEAN, readComplete \in BOOLEAN :
          LET n == fb.mTextureSwapChainLength
              r == FramebufferResolve(fb, 0, tempComplete, readComplete,
                                      [i \in 1 .. n |-> 0], [i \in 1 .. n |-> 1],
                                      [i \in 1 .. n |-> "written"])
              op == Op("Resolve", r.calls, FALSE, FALSE, <<>>, <<>>)
          IN  lastOp' = [op EXCEPT !.sci = lastOp.sci]
    /\ UNCHANGED <<eglContext, fb, swapchainFormats, glObjects, swapchains, vrAppGone,
                   fbOps, sessionStarts, shutdownCalls, torn, repeated>>
    /\ UNCHANGED <<queueVars, appVars, initVars, frameVars>>

\* the target of image `index` is framebuffer complete
TargetComplete(index) ==
    /\ fb.mFrameBuffers # <<>>
    /\ index < Len(fb.mFrameBuffers)
    /\ fb.mFrameBuffers[index + 1] # 0
    /\ (validation.at = index + 1 => validation.glComplete)

\* VrApp::Init: Create with GL_SRGB8_ALPHA8, 4 samples, no multiview; a
\* false return is logged and MainLoop goes on to its loop
VrAppInit ==
    /\ renderPc = "init"
    /\ \E multiviewLoaded \in BOOLEAN, length \in 1 .. MaxImages :
       \E at \in 0 .. length, status \in FramebufferStatuses,
          msaaDepthSamples \in {0, 4}, newStatus \in FramebufferStatuses :
          /\ at = 0 <=> status = "GL_FRAMEBUFFER_COMPLETE"
          /\ LET v == ValidateFramebuffer(at, status, msaaDepthSamples, 4, newStatus)
                 r == FramebufferCreate(fb, swapchainFormats, "GL_SRGB8_ALPHA8", 1, 4,
                                        FALSE, multiviewLoaded, length,
                                        IF v.complete THEN 0 ELSE at)
                 created == r.fb.mColorSwapChainImages
             IN  /\ fb' = r.fb
                 /\ glObjects' = glObjects + r.names
                 /\ swapchains' = swapchains + r.chains
                 /\ lastOp' = Op("Create", r.calls, r.ret,
                                 "GL_SRGB8_ALPHA8" \in swapchainFormats, <<>>, <<>>)
                 /\ validation' = IF r.fb.mHandle THEN v ELSE NotValidated
                 /\ swapImages' = [i \in 1 .. created |-> "free"]
                 /\ imageColors' = [i \in 1 .. created |-> 0]
                 /\ msaaColors' = [i \in 1 .. created |-> 0]
                 /\ depthContents' = [i \in 1 .. created |-> "none"]
    /\ fbOps' = fbOps + 1
    /\ renderPc' = "acquire"
    /\ UNCHANGED <<mTextureSwapChainIndex, acquireLog, eyeLog, renderFrames>>
    /\ UNCHANGED <<eglContext, swapchainFormats, vrAppGone, sessionStarts, shutdownCalls,
                   torn, repeated>>
    /\ UNCHANGED <<queueVars, appVars, initVars, inputVars>>

\* RenderScene, one eye: fb.Acquire().  The runtime gives an image that is
\* not acquired; it fails the call for a null swapchain or without such an
\* image, and may fail it anyway.
EyeAcquire ==
    /\ renderPc = "acquire"
    /\ renderFrames < MaxRenderFrames
    /\ \E runtimeOk \in BOOLEAN, answers \in [1 .. MaxWaitRetries + 1 -> WaitResults] :
       LET free == Where(swapImages, "free")
           acquireOk == fb.mHandle /\ free # {} /\ runtimeOk
       IN  \E given \in (IF acquireOk THEN {i - 1 : i \in free} ELSE {0}) :
              LET a == FramebufferAcquire(fb, mTextureSwapChainIndex, acquireOk,
                                          given, answers)
                  waited == a.waits # <<>> /\ a.waits[Len(a.waits)] = "XR_SUCCESS"
              IN  /\ mTextureSwapChainIndex' = a.index
                  /\ acquireLog' = [ok |-> acquireOk, aborted |-> a.aborted,
                                    waits |-> a.waits, calls |-> a.calls]
                  /\ swapImages' = IF acquireOk
                                   THEN [swapImages EXCEPT ![a.index + 1] =
                                            IF waited THEN "waited" ELSE "acquired"]
                                   ELSE swapImages
                  /\ renderPc' = IF a.aborted THEN "aborted" ELSE "draw"
    /\ eyeLog' = <<"Acquire">>
    /\ renderFrames' = renderFrames + 1
    /\ UNCHANGED <<imageColors, msaaColors, depthContents, validation>>
    /\ UNCHANGED <<queueVars, appVars, initVars, lifeVars, inputVars>>

\* RenderScene, one eye: fb.SetCurrent() and the drawing into the bound
\* target; with a program that is not linked RenderScene returns after the
\* clear, and the next frame starts with the image still acquired
EyeDraw ==
    /\ renderPc = "draw"
    /\ \E linked \in BOOLEAN :
       LET at == mTextureSwapChainIndex + 1
           bound == FramebufferSetCurrent(fb, mTextureSwapChainIndex)
                       /\ TargetComplete(mTextureSwapChainIndex)
       IN  /\ msaaColors' = IF bound
                            THEN [msaaColors EXCEPT ![at] = IF linked THEN renderFrames ELSE 0]
                            ELSE msaaColors
           /\ depthContents' = IF bound
                               THEN [depthContents EXCEPT ![at] =
                                        IF linked THEN "drawn" ELSE "cleared"]
                               ELSE depthContents
           /\ eyeLog' = eyeLog \o <<"SetCurrent">> \o (IF linked THEN <<"draw">> ELSE <<>>)
           /\ renderPc' = IF linked THEN "resolve" ELSE "acquire"
    /\ UNCHANGED <<mTextureSwapChainIndex, swapImages, imageColors, acquireLog, validation,
                   renderFrames>>
    /\ UNCHANGED <<queueVars, appVars, initVars, lifeVars, inputVars>>

\* RenderScene, one eye: fb.Resolve()
EyeResolve ==
    /\ renderPc = "resolve"
    /\ \E tempComplete \in BOOLEAN :
       LET r == FramebufferResolve(fb, mTextureSwapChainIndex, tempComplete,
                                   TargetComplete(mTextureSwapChainIndex),
                                   imageColors, msaaColors, depthContents)
       IN  /\ imageColors' = r.colors
           /\ depthContents' = r.depths
           /\ eyeLog' = eyeLog \o <<"Resolve">> \o r.calls
    /\ renderPc' = "release"
    /\ UNCHANGED <<mTextureSwapChainIndex, swapImages, msaaColors, acquireLog, validation,
                   renderFrames>>
    /\ UNCHANGED <<queueVars, appVars, initVars, lifeVars, inputVars>>

\* RenderScene, one eye: fb.Release().  The runtime accepts the release of
\* an image that has been waited on and fails any other (call order); a
\* failed call ends the process (OXR).
EyeRelease ==
    /\ renderPc = "release"
    /\ \E runtimeOk \in BOOLEAN :
       LET at == mTextureSwapChainIndex + 1
           releaseOk == swapImages[at] = "waited" /\ runtimeOk
       IN  /\ swapImages' = IF releaseOk THEN [swapImages EXCEPT ![at] = "free"]
                                         ELSE swapImages
           /\ renderPc' = IF releaseOk THEN "acquire" ELSE "aborted"
    /\ eyeLog' = Append(eyeLog, "Release")
    /\ UNCHANGED <<mTextureSwapChainIndex, imageColors, msaaColors, depthContents,
                   acquireLog, validation, renderFrames>>
    /\ UNCHANGED <<queueVars, appVars, initVars, lifeVars, inputVars>>

\* the framebuffer's frame variables in a fresh VrApp, its thread at `at`
RenderStart(at) ==
    /\ renderPc = at
    /\ mTextureSwapChainIndex = 0
    /\ swapImages = <<>>
    /\ imageColors = <<>>
    /\ msaaColors = <<>>
    /\ depthContents = <<>>
    /\ acquireLog = NotAcquired
    /\ eyeLog = <<>>
    /\ validation = NotValidated
    /\ renderFrames = 0

\* the frame variables while another component is exercised
FrameFrozen == InputStart("off") /\ RenderStart("off")



(***************************************************************************)
(* VrApp (VrApp.cpp): the render thread's loop, the runtime that feeds it  *)
(* session-state events, and the host thread that asks it to exit.         *)
(***************************************************************************)
\* READY events the runtime issues (activation cycles)
MaxCycles == 2
\* events the runtime may have pending
MaxEvents == 3
\* active ticks per run of the loop (caps mFrameIndex)
MaxFrames == 3

\* MessageQueue<> default capacity, used by gMessageQueue
DefaultCapacity == 64

\* HandleMessageQueueEvents: kMaxNumMessagesPerFrame
kMaxNumMessagesPerFrame == 20

AppState(stop, active, focus) ==
    [mIsStopRequested |-> stop, mIsXrSessionActive |-> active, mHasFocus |-> focus]

SessionStates == {"UNKNOWN", "IDLE", "READY", "SYNCHRONIZED", "VISIBLE", "FOCUSED",
                  "STOPPING", "LOSS_PENDING", "EXITING"}

SessionStateChanged(s) == [type |-> "SESSION_STATE_CHANGED", state |-> s]

(***************************************************************************)
(* The runtime's session lifecycle.  It leaves READY only once the session *)
(* runs (xrBeginSession succeeded) and leaves STOPPING for IDLE only once   *)
(* xrEndSession was called.                                                *)
(***************************************************************************)
Successors(s, isRunning) ==
    CASE s = "UNKNOWN"      -> {"IDLE"}
      [] s = "IDLE"         -> IF readyCount < MaxCycles THEN {"READY", "EXITING"}
                               ELSE {"EXITING"}
      [] s = "READY"        -> IF isRunning THEN {"SYNCHRONIZED"} ELSE {}
      [] s = "SYNCHRONIZED" -> {"VISIBLE", "STOPPING"}
      [] s = "VISIBLE"      -> {"FOCUSED", "SYNCHRONIZED"}
      [] s = "FOCUSED"      -> {"VISIBLE", "STOPPING"}
      [] s = "STOPPING"     -> IF isRunning THEN {"LOSS_PENDING", "EXITING"}
                               ELSE {"IDLE", "LOSS_PENDING", "EXITING"}
      [] OTHER              -> {}

RuntimeTransition ==
    /\ pc \notin {"done", "aborted"}
    /\ Len(events) < MaxEvents
    /\ \E s \in Successors(rtState, running) :
          /\ rtState' = s
          /\ events' = Append(events, SessionStateChanged(s))
          /\ readyCount' = IF s = "READY" THEN readyCount + 1 ELSE readyCount
    /\ UNCHANGED <<assertsOn, pc, newState, mLastAppState, mFrameIndex, lastState, running,
                   tickCalls, hostPc, lastBeginOk, cycleOpen, cycleLog, activeTicks,
                   lastTick, lossSeen, sceneLayers, layerCount, frameTimes, exitCalls, drained>>
    /\ UNCHANGED queueVars
    /\ UNCHANGED <<initVars, lifeVars, frameVars>>

(***************************************************************************)
(* VrApp::OXRHandleSessionStateChanges.  The result names the AppState,    *)
(* the runtime calls made, and whether an assert stopped the process.      *)
(***************************************************************************)
Handled(app, calls, abort) == [app |-> app, calls |-> calls, abort |-> abort]

\* STOPPING ends the session but leaves the flag set
OXRHandleSessionStateChangesKeepsActive(state, app, last, beginOk, asserts) ==
    IF state = "READY" THEN
        IF asserts /\ last.mIsXrSessionActive THEN Handled(app, <<>>, TRUE)
        ELSE Handled([app EXCEPT !.mIsXrSessionActive = beginOk], <<"xrBeginSession">>, FALSE)
    ELSE IF state = "STOPPING" THEN
        IF asserts /\ ~last.mIsXrSessionActive THEN Handled(app, <<>>, TRUE)
        ELSE Handled(app, <<"xrEndSession">>, FALSE)
    ELSE Handled(app, <<>>, FALSE)

\* STOPPING clears the flag without ending the session
OXRHandleSessionStateChangesNoEnd(state, app, last, beginOk, asserts) ==
    IF state = "READY" THEN
        IF asserts /\ last.mIsXrSessionActive THEN Handled(app, <<>>, TRUE)
        ELSE Handled([app EXCEPT !.mIsXrSessionActive = beginOk], <<"xrBeginSession">>, FALSE)
    ELSE IF state = "STOPPING" THEN
        IF asserts /\ ~last.mIsXrSessionActive THEN Handled(app, <<>>, TRUE)
        ELSE Handled([app EXCEPT !.mIsXrSessionActive = FALSE], <<>>, FALSE)
    ELSE Handled(app, <<>>, FALSE)

\* READY marks the session active whatever xrBeginSession returned
OXRHandleSessionStateChangesIgnoresBeginResult(state, app, last, beginOk, asserts) ==
    IF state = "READY" THEN
        IF asserts /\ last.mIsXrSessionActive THEN Handled(app, <<>>, TRUE)
        ELSE Handled([app EXCEPT !.mIsXrSessionActive = TRUE], <<"xrBeginSession">>, FALSE)
    ELSE IF state = "STOPPING" THEN
        IF asserts /\ ~last.mIsXrSessionActive THEN Handled(app, <<>>, TRUE)
        ELSE Handled([app EXCEPT !.mIsXrSessionActive = FALSE], <<"xrEndSession">>, FALSE)
    ELSE Handled(app, <<>>, FALSE)

OXRHandleSessionStateChanges(state, app, last, beginOk, asserts) ==
    IF state = "READY" THEN
        \* assert(mLastAppState.mIsXrSessionActive == false)
        IF asserts /\ last.mIsXrSessionActive THEN Handled(app, <<>>, TRUE)
        ELSE Handled([app EXCEPT !.mIsXrSessionActive = beginOk], <<"xrBeginSession">>, FALSE)
    ELSE IF state = "STOPPING" THEN
        \* assert(mLastAppState.mIsXrSessionActive)
        IF asserts /\ ~last.mIsXrSessionActive THEN Handled(app, <<>>, TRUE)
        ELSE Handled([app EXCEPT !.mIsXrSessionActive = FALSE], <<"xrEndSession">>, FALSE)
    ELSE Handled(app, <<>>, FALSE)

(***************************************************************************)
(* VrApp::OXRHandleSessionStateChangedEvent: the switch on the new state.  *)
(***************************************************************************)
\* EXITING is only logged
OXRHandleSessionStateChangedEventIgnoresExiting(state, app, last, beginOk, asserts) ==
    CASE state = "FOCUSED"  -> Handled([app EXCEPT !.mHasFocus = TRUE], <<>>, FALSE)
      [] state = "VISIBLE"  -> Handled([app EXCEPT !.mHasFocus = FALSE], <<>>, FALSE)
      [] state \in {"READY", "STOPPING"} ->
            OXRHandleSessionStateChanges(state, app, last, beginOk, asserts)
      [] OTHER              -> Handled(app, <<>>, FALSE)

\* VISIBLE also marks the session inactive
OXRHandleSessionStateChangedEventVisibleDeactivates(state, app, last, beginOk, asserts) ==
    CASE state = "FOCUSED"  -> Handled([app EXCEPT !.mHasFocus = TRUE], <<>>, FALSE)
      [] state = "VISIBLE"  ->
            Handled([app EXCEPT !.mHasFocus = FALSE, !.mIsXrSessionActive = FALSE],
                    <<>>, FALSE)
      [] state \in {"READY", "STOPPING"} ->
            OXRHandleSessionStateChanges(state, app, last, beginOk, asserts)
      [] state = "EXITING"  -> Handled([app EXCEPT !.mIsStopRequested = TRUE], <<>>, FALSE)
      [] OTHER              -> Handled(app, <<>>, FALSE)

OXRHandleSessionStateChangedEvent(state, app, last, beginOk, asserts) ==
    CASE state = "FOCUSED"  -> Handled([app EXCEPT !.mHasFocus = TRUE], <<>>, FALSE)
      [] state = "VISIBLE"  -> Handled([app EXCEPT !.mHasFocus = FALSE], <<>>, FALSE)
      [] state \in {"READY", "STOPPING"} ->
            OXRHandleSessionStateChanges(state, app, last, beginOk, asserts)
      [] state = "EXITING"  -> Handled([app EXCEPT !.mIsStopRequested = TRUE], <<>>, FALSE)
      [] OTHER              -> Handled(app, <<>>, FALSE)

(***************************************************************************)
(* VrApp::OXRPollEvents: the switch on the event type.  Only a session     *)
(* state change is handled; every other event is logged.                   *)
(***************************************************************************)
InstanceLossPending == [type |-> "INSTANCE_LOSS_PENDING", state |-> "UNKNOWN"]

OXRPollEventsCase(ev, app, last, beginOk, asserts) ==
    IF ev.type = "SESSION_STATE_CHANGED"
    THEN OXRHandleSessionStateChangedEvent(ev.state, app, last, beginOk, asserts)
    ELSE Handled(app, <<>>, FALSE)

\* the runtime announces, once, that the instance will be lost
RuntimeInstanceLoss ==
    /\ pc \notin {"done", "aborted"}
    /\ Len(events) < MaxEvents
    /\ "instance" \notin lossSeen
    /\ ~Contains(events, InstanceLossPending)
    /\ events' = Append(events, InstanceLossPending)
    /\ UNCHANGED <<assertsOn, pc, newState, mLastAppState, mFrameIndex, lastState, rtState,
                   running, readyCount, tickCalls, hostPc, lastBeginOk, cycleOpen, cycleLog,
                   activeTicks, lastTick, lossSeen, sceneLayers, layerCount,
                   frameTimes, exitCalls, drained>>
    /\ UNCHANGED queueVars
    /\ UNCHANGED <<initVars, lifeVars, frameVars>>

(***************************************************************************)
(* VrApp::HandleMessageQueueEvents: at most kMaxNumMessagesPerFrame Polls; *)
(* every message of type EXIT_NEEDED requests the stop.                    *)
(***************************************************************************)
RECURSIVE HandleMessageQueueEvents(_, _, _, _)
HandleMessageQueueEvents(q, cap, app, numMessagesHandled) ==
    IF numMessagesHandled >= kMaxNumMessagesPerFrame THEN [queue |-> q, app |-> app]
    ELSE LET r == Poll(q, cap)
         IN  IF ~r.ok THEN [queue |-> q, app |-> app]
             ELSE HandleMessageQueueEvents(
                      r.queue, cap,
                      IF r.msg.mType = "EXIT_NEEDED"
                      THEN [app EXCEPT !.mIsStopRequested = TRUE] ELSE app,
                      numMessagesHandled + 1)

(***************************************************************************)
(* VrApp::HandleInput: the menu button, just pressed, requests the stop.   *)
(***************************************************************************)
HandleInput(menuJustPressed, app) ==
    IF menuJustPressed THEN [app EXCEPT !.mIsStopRequested = TRUE] ELSE app

(***************************************************************************)
(* InputStateFrame::SyncButtonsAndThumbSticks and SyncHandPoses            *)
(* (VrController.cpp): the runtime calls they make.                        *)
(***************************************************************************)
SyncButtonsAndThumbSticks == <<"xrSyncActions", "xrGetActionState">>

SyncHandPoses == <<"xrLocateSpace(hand)">>

(***************************************************************************)
(* VrApp::RenderScene: the layers it adds.  It returns before adding one   *)
(* when the view pose is not valid or the shader program is not linked.    *)
(***************************************************************************)
RenderScene(poseValid, linked) == IF poseValid /\ linked THEN 1 ELSE 0

(***************************************************************************)
(* VrApp::Frame: the runtime calls of one frame, in order, and the layer   *)
(* count given to xrEndFrame.                                              *)
(***************************************************************************)
FrameTimes(predicted, displayTime) ==
    [predictedDisplayTime |-> predicted, displayTime |-> displayTime]

NoFrameTimes == FrameTimes(0, 0)

\* xrWaitFrame's answer, frameState.predictedDisplayTime: the runtime's times
\* grow from frame to frame; the model takes the frame's number, which stops
\* growing at MaxFrames
PredictedDisplayTime(frameIndex) == Min(frameIndex, MaxFrames)

Framed(calls, added, count, predicted, displayTime) ==
    [calls |-> calls, sceneLayers |-> added, layerCount |-> count,
     times |-> FrameTimes(predicted, displayTime)]

FrameCalls(frameIndex) ==
    <<"xrWaitFrame", "xrBeginFrame">>
    \o (IF frameIndex = 1 THEN <<"CreateRuntimeInitiatedReferenceSpaces">> ELSE <<>>)
    \o <<"xrLocateSpace">> \o SyncHandPoses \o <<"xrLocateViews", "xrEndFrame">>

\* a Frame that passes on the count RenderScene left
FrameSubmitsSceneLayers(frameIndex, poseValid, linked, predicted) ==
    Framed(FrameCalls(frameIndex), RenderScene(poseValid, linked),
           RenderScene(poseValid, linked), predicted, predicted)

\* a Frame that ends the frame at the time of the frame before
FrameEndsAtEarlierTime(frameIndex, poseValid, linked, predicted) ==
    LET added == RenderScene(poseValid, linked)
    IN  Framed(FrameCalls(frameIndex), added, IF added = 0 THEN 1 ELSE added,
               predicted, predicted - 1)

\* `predicted` is the frameState.predictedDisplayTime xrWaitFrame returns
Frame(frameIndex, poseValid, linked, predicted) ==
    LET added == RenderScene(poseValid, linked)
    IN  Framed(FrameCalls(frameIndex), added, IF added = 0 THEN 1 ELSE added,
               predicted, predicted)

(***************************************************************************)
(* VrApp::MainLoop, the part of an iteration after the stop check.         *)
(***************************************************************************)
Ticked(app, idx, calls, kind, added, count, times) ==
    [app |-> app, frameIndex |-> idx, calls |-> calls, kind |-> kind,
     sceneLayers |-> added, layerCount |-> count, times |-> times]

\* an iteration that leaves out the frame once the menu button asked to stop
MainLoopBodyStopSkipsFrame(app, frameIndex, menuJustPressed, poseValid, linked, added, count) ==
    IF app.mIsXrSessionActive /\ ~menuJustPressed
    THEN LET f == Frame(frameIndex + 1, poseValid, linked,
                        PredictedDisplayTime(frameIndex + 1))
         IN  Ticked(app, frameIndex + 1,
                    SyncButtonsAndThumbSticks \o f.calls, "active",
                    f.sceneLayers, f.layerCount, f.times)
    ELSE IF app.mIsXrSessionActive
    THEN Ticked(HandleInput(menuJustPressed, app), frameIndex + 1,
                SyncButtonsAndThumbSticks, "active", added, count, NoFrameTimes)
    ELSE Ticked(app, 0, <<>>, "idle", added, count, NoFrameTimes)

MainLoopBody(app, frameIndex, menuJustPressed, poseValid, linked, added, count) ==
    IF app.mIsXrSessionActive
    THEN LET f == Frame(frameIndex + 1, poseValid, linked,
                        PredictedDisplayTime(frameIndex + 1))
         IN  Ticked(HandleInput(menuJustPressed, app), frameIndex + 1,
                    SyncButtonsAndThumbSticks \o f.calls, "active",
                    f.sceneLayers, f.layerCount, f.times)
    ELSE Ticked(app, 0, <<>>, "idle", added, count, NoFrameTimes)

(***************************************************************************)
(* The render thread's actions.                                            *)
(***************************************************************************)
\* HandleEvents: AppState newState = mLastAppState
TickStart ==
    /\ pc = "top"
    /\ pc' = "poll"
    /\ newState' = mLastAppState
    /\ tickCalls' = <<>>
    /\ UNCHANGED <<assertsOn, mLastAppState, mFrameIndex, lastState, events, rtState,
                   running, readyCount, hostPc, lastBeginOk, cycleOpen, cycleLog,
                   activeTicks, lastTick, lossSeen, sceneLayers, layerCount,
                   frameTimes, exitCalls, drained>>
    /\ UNCHANGED queueVars
    /\ UNCHANGED <<initVars, lifeVars, frameVars>>

\* OXRPollEvents: xrPollEvent returns an event, which is handled
PollEventHandle ==
    /\ pc = "poll"
    /\ events # <<>>
    /\ LET ev == Head(events)
       IN  \E beginOk \in (IF rtState = "READY" /\ ~running THEN BOOLEAN ELSE {FALSE}) :
           LET h      == OXRPollEventsCase(ev, newState, mLastAppState, beginOk, assertsOn)
               session == (ev.type = "SESSION_STATE_CHANGED")
               begins == Contains(h.calls, "xrBeginSession")
               ends   == Contains(h.calls, "xrEndSession")
               \* OXR(xrEndSession(...)) on a session that is not running
               fatal  == h.abort \/ (ends /\ ~running)
           IN  /\ events' = Tail(events)
               /\ lastState' = IF session THEN ev.state ELSE lastState
               /\ lossSeen' = IF session /\ ev.state = "LOSS_PENDING"
                               THEN lossSeen \cup {"session"}
                               ELSE IF ev.type = "INSTANCE_LOSS_PENDING"
                               THEN lossSeen \cup {"instance"} ELSE lossSeen
               /\ pc' = IF fatal THEN "aborted" ELSE "poll"
               /\ newState' = h.app
               /\ tickCalls' = tickCalls \o h.calls
               /\ running' = IF fatal THEN running
                             ELSE IF begins THEN beginOk
                             ELSE IF ends THEN FALSE ELSE running
               /\ lastBeginOk' = IF begins THEN beginOk ELSE lastBeginOk
               /\ cycleOpen' = IF fatal THEN cycleOpen
                               ELSE IF begins THEN (cycleOpen \/ beginOk)
                               ELSE IF session /\ ev.state = "STOPPING" THEN FALSE
                               ELSE cycleOpen
               /\ cycleLog' = IF fatal THEN cycleLog
                              ELSE IF begins
                              THEN (IF cycleOpen THEN Append(cycleLog, "begin")
                                    ELSE IF beginOk THEN <<"begin">> ELSE <<>>)
                              ELSE IF ends THEN Append(cycleLog, "end") ELSE cycleLog
               /\ activeTicks' = IF ~fatal /\ begins /\ beginOk THEN 0 ELSE activeTicks
    /\ UNCHANGED <<assertsOn, mLastAppState, mFrameIndex, rtState, readyCount, hostPc,
                   lastTick, sceneLayers, layerCount, frameTimes, exitCalls, drained>>
    /\ UNCHANGED queueVars
    /\ UNCHANGED <<initVars, lifeVars, frameVars>>

\* OXRPollEvents: xrPollEvent has no event, the drain ends
PollEventNone ==
    /\ pc = "poll"
    /\ events = <<>>
    /\ pc' = "msgs"
    /\ UNCHANGED <<assertsOn, newState, mLastAppState, mFrameIndex, lastState, events,
                   rtState, running, readyCount, tickCalls, hostPc, lastBeginOk, cycleOpen,
                   cycleLog, activeTicks, lastTick, lossSeen, sceneLayers, layerCount,
                   frameTimes, exitCalls, drained>>
    /\ UNCHANGED queueVars
    /\ UNCHANGED <<initVars, lifeVars, frameVars>>

\* HandleEvents: HandleMessageQueueEvents(newState)
DrainMessages ==
    /\ pc = "msgs"
    /\ LET r == HandleMessageQueueEvents(gMessageQueue, kCapacityPow2, newState, 0)
       IN  /\ gMessageQueue' = r.queue
           /\ newState' = r.app
    /\ pc' = "check"
    /\ UNCHANGED <<assertsOn, mLastAppState, mFrameIndex, lastState, events, rtState,
                   running, readyCount, tickCalls, hostPc, lastBeginOk, cycleOpen, cycleLog,
                   activeTicks, lastTick, lossSeen, sceneLayers, layerCount,
                   frameTimes, exitCalls, drained>>
    /\ UNCHANGED <<kCapacityPow2, prod, cons, nextMsg, written, polled, lastPoll, fifo,
                   idealPoll, burst, burstValid, dropped>>
    /\ UNCHANGED <<initVars, lifeVars, frameVars>>

(***************************************************************************)
(* OpenXr::DestroySession: the session calls it makes.  Nothing assigns    *)
(* OpenXr::mSessionState, which keeps its initializer.                     *)
(***************************************************************************)
mSessionState == "UNKNOWN"

DestroySessionCalls(hasSession, state) ==
    IF hasSession
    THEN (IF state \in {"READY", "SYNCHRONIZED", "VISIBLE", "FOCUSED"}
          THEN <<"xrEndSession">> ELSE <<>>) \o <<"xrDestroySession">>
    ELSE <<>>

\* MainLoop: if (appState.mIsStopRequested) { break; }, and what ThreadFnJNI
\* does once MainLoop has returned: gOpenXr->Shutdown() on the session that
\* Init created
StopCheck ==
    /\ pc = "check"
    /\ newState.mIsStopRequested
    /\ pc' = "done"
    /\ exitCalls' = DestroySessionCalls(TRUE, mSessionState)
    /\ UNCHANGED <<assertsOn, newState, mLastAppState, mFrameIndex, lastState, events,
                   rtState, running, readyCount, tickCalls, hostPc, lastBeginOk, cycleOpen,
                   cycleLog, activeTicks, lastTick, lossSeen, sceneLayers, layerCount,
                   frameTimes, drained>>
    /\ UNCHANGED queueVars
    /\ UNCHANGED <<initVars, lifeVars, frameVars>>

\* MainLoop: the rest of the iteration, then mLastAppState = appState.  With
\* `saturate` the frame index stays at MaxFrames once it has reached it;
\* without, the iteration that would pass MaxFrames is not taken.
Iterate(saturate) ==
    /\ pc = "check"
    /\ ~newState.mIsStopRequested
    /\ \E menuJustPressed \in BOOLEAN, poseValid \in BOOLEAN, linked \in BOOLEAN :
          LET b == MainLoopBody(newState, mFrameIndex, menuJustPressed, poseValid, linked,
                                sceneLayers, layerCount)
          IN  /\ saturate \/ b.frameIndex <= MaxFrames
              /\ sceneLayers' = b.sceneLayers
              /\ layerCount' = b.layerCount
              /\ frameTimes' = b.times
              /\ mFrameIndex' = Min(b.frameIndex, MaxFrames)
              /\ newState' = b.app
              /\ mLastAppState' = b.app
              /\ tickCalls' = tickCalls \o b.calls
              /\ lastTick' = b.kind
              /\ activeTicks' = IF b.kind = "active" /\ b.frameIndex <= MaxFrames
                                THEN activeTicks + 1 ELSE activeTicks
              /\ cycleLog' = IF Contains(b.calls, "xrWaitFrame") /\ ~Contains(cycleLog, "wait")
                             THEN Append(cycleLog, "wait") ELSE cycleLog
    /\ pc' = "top"
    /\ UNCHANGED <<assertsOn, lastState, events, rtState, running, readyCount, hostPc,
                   lastBeginOk, cycleOpen, lossSeen, exitCalls, drained>>
    /\ UNCHANGED queueVars
    /\ UNCHANGED <<initVars, lifeVars, frameVars>>

RunTick == Iterate(FALSE)

\* the same iteration for the runs that have no end: the frame index counts
\* up to MaxFrames and stays there
RunTickOn == Iterate(TRUE)

(***************************************************************************)
(* The host thread: VRAppThread::~VRAppThread posts EXIT_NEEDED and joins. *)
(***************************************************************************)
HostPoster == 1

\* gMessageQueue.Post(...): mTail.fetch_add(1)
HostDestroy ==
    /\ hostPc = "alive"
    /\ hostPc' = "posting"
    /\ prod' = [prod EXCEPT ![HostPoster] =
                   [pc |-> "reserved", pos |-> gMessageQueue.mTail,
                    msg |-> Message("EXIT_NEEDED", 0)]]
    /\ gMessageQueue' = PostReserve(gMessageQueue)
    /\ UNCHANGED <<assertsOn, pc, newState, mLastAppState, mFrameIndex, lastState, events,
                   rtState, running, readyCount, tickCalls, lastBeginOk, cycleOpen, cycleLog,
                   activeTicks, lastTick, lossSeen, sceneLayers, layerCount,
                   frameTimes, exitCalls, drained>>
    /\ UNCHANGED <<kCapacityPow2, cons, nextMsg, written, polled, lastPoll, fifo, idealPoll,
                   burst, burstValid, dropped>>
    /\ UNCHANGED <<initVars, lifeVars, frameVars>>

\* gMessageQueue.Post(...): the full check, then the rollback or the write
HostPostFinish ==
    /\ hostPc = "posting"
    /\ hostPc' = "joining"
    /\ LET me == prod[HostPoster]
       IN  gMessageQueue' =
               IF PostIsFull(me.pos, gMessageQueue.mHead, kCapacityPow2)
               THEN PostRollback(gMessageQueue)
               ELSE PostWrite(gMessageQueue, me.pos, me.msg, kCapacityPow2)
    /\ prod' = [prod EXCEPT ![HostPoster] = IdleProd]
    /\ UNCHANGED <<assertsOn, pc, newState, mLastAppState, mFrameIndex, lastState, events,
                   rtState, running, readyCount, tickCalls, lastBeginOk, cycleOpen, cycleLog,
                   activeTicks, lastTick, lossSeen, sceneLayers, layerCount,
                   frameTimes, exitCalls, drained>>
    /\ UNCHANGED <<kCapacityPow2, cons, nextMsg, written, polled, lastPoll, fifo, idealPoll,
                   burst, burstValid, dropped>>
    /\ UNCHANGED <<initVars, lifeVars, frameVars>>

\* mThread.join() returns once the render thread has left MainLoop
HostJoin ==
    /\ hostPc = "joining"
    /\ pc = "done"
    /\ hostPc' = "joined"
    /\ UNCHANGED <<assertsOn, pc, newState, mLastAppState, mFrameIndex, lastState, events,
                   rtState, running, readyCount, tickCalls, lastBeginOk, cycleOpen, cycleLog,
                   activeTicks, lastTick, lossSeen, sceneLayers, layerCount,
                   frameTimes, exitCalls, drained>>
    /\ UNCHANGED queueVars
    /\ UNCHANGED <<initVars, lifeVars, frameVars>>

\* a fresh VrApp and its environment, the render thread at `at`
AppStart(at) ==
    /\ assertsOn \in BOOLEAN
    /\ pc = at
    /\ newState = AppState(FALSE, FALSE, FALSE)
    /\ mLastAppState = AppState(FALSE, FALSE, FALSE)
    /\ mFrameIndex = 0
    /\ lastState = "UNKNOWN"
    /\ events = <<>>
    /\ rtState = "UNKNOWN"
    /\ running = FALSE
    /\ readyCount = 0
    /\ tickCalls = <<>>
    /\ hostPc = "alive"
    /\ lastBeginOk = FALSE
    /\ cycleOpen = FALSE
    /\ cycleLog = <<>>
    /\ activeTicks = 0
    /\ lastTick = "none"
    /\ lossSeen = {}
    /\ sceneLayers = 0
    /\ layerCount = 0
    /\ frameTimes = NoFrameTimes
    /\ exitCalls = <<>>
    /\ drained = 0

AppInit == AppStart("top")

\* the application's variables while another component is exercised
AppFrozen ==
    /\ assertsOn = FALSE
    /\ pc = "done"
    /\ newState = AppState(FALSE, FALSE, FALSE)
    /\ mLastAppState = AppState(FALSE, FALSE, FALSE)
    /\ mFrameIndex = 0
    /\ lastState = "UNKNOWN"
    /\ events = <<>>
    /\ rtState = "UNKNOWN"
    /\ running = FALSE
    /\ readyCount = 0
    /\ tickCalls = <<>>
    /\ hostPc = "joined"
    /\ lastBeginOk = FALSE
    /\ cycleOpen = FALSE
    /\ cycleLog = <<>>
    /\ activeTicks = 0
    /\ lastTick = "none"
    /\ lossSeen = {}
    /\ sceneLayers = 0
    /\ layerCount = 0
    /\ frameTimes = NoFrameTimes
    /\ exitCalls = <<>>
    /\ drained = 0

vars == <<queueVars, appVars, initVars, lifeVars, frameVars>>

Init == QueueInit({DefaultCapacity}) /\ AppInit /\ InitFrozen /\ LifeFrozen /\ FrameFrozen

Next ==
    \/ RuntimeTransition
    \/ RuntimeInstanceLoss
    \/ TickStart
    \/ PollEventHandle
    \/ PollEventNone
    \/ DrainMessages
    \/ StopCheck
    \/ RunTick
    \/ HostDestroy
    \/ HostPostFinish
    \/ HostJoin

Spec == Init /\ [][Next]_vars

(***************************************************************************)
(* The same program with its scheduling: the render thread keeps running  *)
(* (MainLoop is a loop without a wait of its own), and the host thread,    *)
(* once in ~VRAppThread, finishes Post and returns from join() when it     *)
(* can.  Nothing makes the host call the destructor or the runtime issue   *)
(* an event.                                                               *)
(***************************************************************************)
RenderThread ==
    \/ TickStart
    \/ PollEventHandle
    \/ PollEventNone
    \/ DrainMessages
    \/ StopCheck
    \/ RunTickOn

NextLive ==
    \/ RuntimeTransition
    \/ RuntimeInstanceLoss
    \/ TickStart
    \/ PollEventHandle
    \/ PollEventNone
    \/ DrainMessages
    \/ StopCheck
    \/ RunTickOn
    \/ HostDestroy
    \/ HostPostFinish
    \/ HostJoin

SpecLive ==
    /\ Init
    /\ [][NextLive]_vars
    /\ WF_vars(RenderThread)
    /\ WF_vars(HostPostFinish)
    /\ WF_vars(HostJoin)


(***************************************************************************)
(* HandleMessageQueueEvents Poll by Poll, every atomic operation of Poll a *)
(* step, while producers run Post: the ticks of an inactive session over a *)
(* queue that already holds some messages.                                 *)
(***************************************************************************)
\* the new queue after n whole Post calls, n at most the capacity, of the
\* payloads MaxPosts + 1, MaxPosts + 2, ...: each took the slot at the tail
Posted(n) ==
    [mHead |-> 0, mTail |-> n,
     mBuffer |-> [slot \in 0 .. n - 1 |-> Message("EXIT_NEEDED", MaxPosts + slot + 1)]]

\* messages in the queue when the first tick starts: none, one, around the
\* limit of a tick, and a queue that is full or one short of it
Backlogs ==
    {0, 1, kMaxNumMessagesPerFrame - 1, kMaxNumMessagesPerFrame,
     kMaxNumMessagesPerFrame + 1, DefaultCapacity - 1, DefaultCapacity}

\* Post calls made while the ticks run
MaxDrainPosts == 2

QueueBacklog(n) ==
    /\ kCapacityPow2 = DefaultCapacity
    /\ gMessageQueue = Posted(n)
    /\ prod = [p \in Producers |-> IdleProd]
    /\ cons = IdleCons
    /\ nextMsg = MaxPosts - MaxDrainPosts + 1
    /\ written = {MaxPosts + i : i \in 1 .. n}
    /\ polled = <<>>
    /\ lastPoll = NoPoll
    /\ fifo = <<>>
    /\ idealPoll = NoPoll
    /\ burst = <<>>
    /\ burstValid = FALSE
    /\ dropped = <<>>

\* the variables of the application a step of the drain leaves alone
DrainKeeps ==
    UNCHANGED <<assertsOn, mLastAppState, mFrameIndex, lastState, events, rtState,
                running, readyCount, tickCalls, hostPc, lastBeginOk, cycleOpen, cycleLog,
                activeTicks, lastTick, lossSeen, sceneLayers, layerCount, frameTimes,
                exitCalls>>

\* size_t numMessagesHandled = 0
DrainEnter ==
    /\ pc = "msgs"
    /\ pc' = "drain"
    /\ drained' = 0
    /\ UNCHANGED newState
    /\ DrainKeeps
    /\ UNCHANGED queueVars
    /\ UNCHANGED <<initVars, lifeVars, frameVars>>

\* while (numMessagesHandled < kMaxNumMessagesPerFrame): the condition is false
DrainLimit ==
    /\ pc = "drain"
    /\ cons.pc = "idle"
    /\ drained >= kMaxNumMessagesPerFrame
    /\ pc' = "check"
    /\ UNCHANGED <<newState, drained>>
    /\ DrainKeeps
    /\ UNCHANGED queueVars
    /\ UNCHANGED <<initVars, lifeVars, frameVars>>

\* a loop that polls whatever the number of messages handled
DrainPollLoadHeadUnlimited ==
    /\ pc = "drain"
    /\ cons.pc = "idle"
    /\ cons' = [pc |-> "compare", head |-> gMessageQueue.mHead, out |-> DefaultMessage]
    /\ UNCHANGED <<kCapacityPow2, gMessageQueue, prod, nextMsg, written, polled,
                   lastPoll, fifo, idealPoll, burst, burstValid, dropped>>
    /\ UNCHANGED <<appVars, initVars, lifeVars, frameVars>>

\* gMessageQueue.Poll(message): head = mHead.load()
DrainPollLoadHead ==
    /\ pc = "drain"
    /\ cons.pc = "idle"
    /\ drained < kMaxNumMessagesPerFrame
    /\ cons' = [pc |-> "compare", head |-> gMessageQueue.mHead, out |-> DefaultMessage]
    /\ UNCHANGED <<kCapacityPow2, gMessageQueue, prod, nextMsg, written, polled,
                   lastPoll, fifo, idealPoll, burst, burstValid, dropped>>
    /\ UNCHANGED <<appVars, initVars, lifeVars, frameVars>>

\* Poll: if (head == mTail.load()) return false; the loop breaks
DrainPollCompare ==
    /\ pc = "drain"
    /\ cons.pc = "compare"
    /\ IF PollIsEmpty(cons.head, gMessageQueue.mTail)
       THEN /\ cons' = IdleCons
            /\ lastPoll' = [NoPoll EXCEPT !.ran = TRUE]
            /\ pc' = "check"
       ELSE /\ cons' = [cons EXCEPT !.pc = "read"]
            /\ UNCHANGED <<lastPoll, pc>>
    /\ UNCHANGED <<newState, drained>>
    /\ DrainKeeps
    /\ UNCHANGED <<kCapacityPow2, gMessageQueue, prod, nextMsg, written, polled, fifo,
                   idealPoll, burst, burstValid, dropped>>
    /\ UNCHANGED <<initVars, lifeVars, frameVars>>

\* Poll: outMsg = mBuffer[head & kMask]
DrainPollRead == pc = "drain" /\ ConsRead

\* Poll: mHead.store(head + 1), return true; numMessagesHandled++ and the switch
DrainPollStore ==
    /\ pc = "drain"
    /\ cons.pc = "store"
    /\ gMessageQueue' = PollStore(gMessageQueue, cons.head)
    /\ polled' = Append(polled, cons.out.mPayload)
    /\ lastPoll' = [ok |-> TRUE, msg |-> cons.out, ran |-> TRUE]
    /\ cons' = IdleCons
    /\ drained' = drained + 1
    /\ newState' = IF cons.out.mType = "EXIT_NEEDED"
                   THEN [newState EXCEPT !.mIsStopRequested = TRUE] ELSE newState
    /\ UNCHANGED pc
    /\ DrainKeeps
    /\ UNCHANGED <<kCapacityPow2, prod, nextMsg, written, fifo, idealPoll, burst,
                   burstValid, dropped>>
    /\ UNCHANGED <<initVars, lifeVars, frameVars>>

\* the steps of the render thread inside HandleMessageQueueEvents
DrainStep ==
    \/ DrainLimit
    \/ DrainPollLoadHead
    \/ DrainPollCompare
    \/ DrainPollRead
    \/ DrainPollStore

DrainOnly ==
    /\ \E n \in Backlogs : QueueBacklog(n)
    /\ AppStart("top") /\ InitFrozen /\ LifeFrozen /\ FrameFrozen

DrainNext ==
    \/ TickStart
    \/ PollEventNone
    \/ DrainEnter
    \/ DrainLimit
    \/ DrainPollLoadHead
    \/ DrainPollCompare
    \/ DrainPollRead
    \/ DrainPollStore
    \/ StopCheck
    \/ RunTick
    \/ \E p \in Producers : ProdReserve(p)
    \/ \E p \in Producers : ProdCheck(p)
    \/ \E p \in Producers : ProdRollback(p)
    \/ \E p \in Producers : ProdWrite(p)

SpecDrain == DrainOnly /\ [][DrainNext]_vars

(***************************************************************************)
(* The host's create and destroy calls (nativeOnCreate, nativeOnDestroy)   *)
(* and the threads they start and join, over the globals gOpenXr and       *)
(* gMessageQueue, which outlive a thread.                                  *)
(***************************************************************************)
\* gOpenXr == nullptr: no OpenXr object has been made yet
gOpenXrIsNull == started = <<>>

\* ThreadFnJNI has returned: MainLoop was left, the VrApp destroyed and
\* gOpenXr->Shutdown() has run
ThreadReturned ==
    /\ pc = "done"
    /\ ipc = "returned"
    /\ vrAppGone
    /\ lastOp.name = "Shutdown"

\* ThreadFnJNI: if (gOpenXr == nullptr) { make the object and run Init }
ThreadFnJNI ==
    /\ pc = "start"
    /\ pc' = IF gOpenXrIsNull THEN "init" ELSE "mainloop"
    /\ UNCHANGED <<assertsOn, newState, mLastAppState, mFrameIndex, lastState, events,
                   rtState, running, readyCount, tickCalls, hostPc, lastBeginOk, cycleOpen,
                   cycleLog, activeTicks, lastTick, lossSeen, sceneLayers, layerCount,
                   frameTimes, exitCalls, drained>>
    /\ UNCHANGED <<queueVars, initVars, lifeVars, frameVars>>

\* ThreadFnJNI: gOpenXr->Init(...), step by step
ThreadInitStep ==
    /\ pc = "init"
    /\ \/ StepLoader
       \/ StepInstance
       \/ StepSystem
       \/ StepEgl
       \/ StepSession
       \/ StepViewConfig
       \/ StepSpaces

\* ThreadFnJNI: if (ret < 0) FAIL(...), else on to MainLoop
ThreadInitReturns ==
    /\ pc = "init"
    /\ ipc = "returned"
    /\ pc' = IF initResult < 0 THEN "aborted" ELSE "mainloop"
    /\ UNCHANGED <<assertsOn, newState, mLastAppState, mFrameIndex, lastState, events,
                   rtState, running, readyCount, tickCalls, hostPc, lastBeginOk, cycleOpen,
                   cycleLog, activeTicks, lastTick, lossSeen, sceneLayers, layerCount,
                   frameTimes, exitCalls, drained>>
    /\ UNCHANGED <<queueVars, initVars, lifeVars, frameVars>>

\* std::make_unique<VrApp>()->MainLoop(): a fresh VrApp, whose Init makes the
\* input state from OpenXr::GetInstance() and gOpenXr->mSession; on null
\* handles the first OXR call of it fails and ends the process
MainLoopInit ==
    /\ pc = "mainloop"
    /\ pc' = IF mInstance /\ mSession THEN "top" ELSE "aborted"
    /\ newState' = AppState(FALSE, FALSE, FALSE)
    /\ mLastAppState' = AppState(FALSE, FALSE, FALSE)
    /\ mFrameIndex' = 0
    /\ tickCalls' = <<>>
    /\ vrAppGone' = FALSE
    /\ UNCHANGED <<assertsOn, lastState, events, rtState, running, readyCount, hostPc,
                   lastBeginOk, cycleOpen, cycleLog, activeTicks, lastTick, lossSeen,
                   sceneLayers, layerCount, frameTimes, exitCalls, drained>>
    /\ UNCHANGED <<eglContext, fb, swapchainFormats, glObjects, swapchains, fbOps,
                   sessionStarts, shutdownCalls, lastOp, torn, repeated>>
    /\ UNCHANGED <<queueVars, initVars, frameVars>>

\* READY events the runtime issues to a thread's session in these runs
MaxHostCycles == 1

\* the runtime has events only for a session that exists
SessionTransition ==
    /\ mSession
    /\ RuntimeTransition
    /\ readyCount' <= MaxHostCycles

SessionInstanceLoss == mInstance /\ RuntimeInstanceLoss

\* ThreadFnJNI after MainLoop: the VrApp temporary is destroyed
ThreadVrAppEnd == pc = "done" /\ VrAppEnd

\* ThreadFnJNI after MainLoop: gOpenXr->Shutdown(); gOpenXr keeps the object
ThreadShutdown ==
    /\ pc = "done"
    /\ vrAppGone
    /\ shutdownCalls = 0
    /\ ShutdownCall

\* mThread.join() returns once ThreadFn has returned
HostJoinReturned == ThreadReturned /\ HostJoin

\* nativeOnCreate after a nativeOnDestroy: new VRAppThread, which starts the
\* next render thread
NativeOnCreate ==
    /\ hostPc = "joined"
    /\ ThreadReturned
    /\ hostPc' = "alive"
    /\ pc' = "start"
    /\ UNCHANGED <<assertsOn, newState, mLastAppState, mFrameIndex, lastState, events,
                   rtState, running, readyCount, tickCalls, lastBeginOk, cycleOpen,
                   cycleLog, activeTicks, lastTick, lossSeen, sceneLayers, layerCount,
                   frameTimes, exitCalls, drained>>
    /\ UNCHANGED <<queueVars, initVars, lifeVars, frameVars>>

\* the process right after its first nativeOnCreate
HostOnly ==
    /\ QueueInit({DefaultCapacity})
    /\ AppStart("start")
    /\ InitStart(SetToSeq(ExtensionNames))
    /\ LifeStart(ColorFormats)
    /\ FrameFrozen

HostNext ==
    \/ ThreadFnJNI
    \/ ThreadInitStep
    \/ ThreadInitReturns
    \/ MainLoopInit
    \/ SessionTransition
    \/ SessionInstanceLoss
    \/ TickStart
    \/ PollEventHandle
    \/ PollEventNone
    \/ DrainMessages
    \/ StopCheck
    \/ RunTick
    \/ ThreadVrAppEnd
    \/ ThreadShutdown
    \/ HostDestroy
    \/ HostPostFinish
    \/ HostJoinReturned
    \/ NativeOnCreate

SpecHost == HostOnly /\ [][HostNext]_vars

(***************************************************************************)
(* OpenXr::Init run on its own, against every runtime extension list and   *)
(* every failing call.                                                     *)
(***************************************************************************)
\* the lists a runtime may report: any subset of the names, possibly with
\* every name reported twice
ExtensionLists ==
    {SetToSeq(S) : S \in SUBSET ExtensionNames}
        \cup {SetToSeq(S) \o SetToSeq(S) : S \in SUBSET ExtensionNames}

InitInit ==
    \E props \in ExtensionLists : InitStart(props)

InitOnly == QueueInit({DefaultCapacity}) /\ AppFrozen /\ InitInit /\ LifeFrozen /\ FrameFrozen

InitNext ==
    \/ StepLoader
    \/ StepInstance
    \/ StepSystem
    \/ StepEgl
    \/ StepSession
    \/ StepViewConfig
    \/ StepSpaces

SpecInit == InitOnly /\ [][InitNext]_vars

(***************************************************************************)
(* The resources from Init to Shutdown: Init against a runtime that lists  *)
(* every extension, the framebuffer and the per-activation spaces of the   *)
(* VrApp, then Shutdown.                                                   *)
(***************************************************************************)
LifeInit ==
    /\ InitStart(SetToSeq(ExtensionNames))
    /\ \E formats \in SUBSET ColorFormats : LifeStart(formats)

LifeOnly == QueueInit({DefaultCapacity}) /\ AppFrozen /\ LifeInit /\ FrameFrozen

LifeNext ==
    \/ StepLoader
    \/ StepInstance
    \/ StepSystem
    \/ StepEgl
    \/ StepSession
    \/ StepViewConfig
    \/ StepSpaces
    \/ FbCreate
    \/ FbResolve
    \/ FbDestroy
    \/ VrAppEnd
    \/ CreateRuntimeInitiatedReferenceSpaces
    \/ ShutdownCall

SpecLife == LifeOnly /\ [][LifeNext]_vars

(***************************************************************************)
(* The input calls of the active ticks on their own: buttons, then poses,  *)
(* tick after tick, against every answer of the runtime.                   *)
(***************************************************************************)
InputOnly ==
    QueueInit({DefaultCapacity}) /\ AppFrozen /\ InitFrozen /\ LifeFrozen
        /\ InputStart("buttons") /\ RenderStart("off")

InputNext ==
    \/ TickSyncButtons
    \/ TickSyncHandPoses

SpecInput == InputOnly /\ [][InputNext]_vars

(***************************************************************************)
(* The framebuffer of one eye from VrApp::Init through the frames, against *)
(* every format list, swapchain length and answer of the runtime and GL.   *)
(***************************************************************************)
RenderOnly ==
    /\ QueueInit({DefaultCapacity}) /\ AppFrozen /\ InitFrozen /\ InputStart("off")
    /\ \E formats \in SUBSET ColorFormats : LifeStart(formats)
    /\ RenderStart("init")

RenderNext ==
    \/ VrAppInit
    \/ EyeAcquire
    \/ EyeDraw
    \/ EyeResolve
    \/ EyeRelease

SpecRender == RenderOnly /\ [][RenderNext]_vars

(***************************************************************************)
(* Claims about the session state machine and the frame loop (Spec).       *)
(***************************************************************************)
ActiveSessionStates == {"SYNCHRONIZED", "VISIBLE", "FOCUSED"}

\* C1: after every processed session-state event the session-active flag is
\* true exactly when the last delivered session state is READY with a
\* successful begin-session, SYNCHRONIZED, VISIBLE or FOCUSED.
C1_ActiveIffSessionState ==
    pc # "aborted" =>
        (newState.mIsXrSessionActive <=>
            (\/ lastState \in ActiveSessionStates
             \/ (lastState = "READY" /\ lastBeginOk)))

\* C1, a case: the second activation has reached FOCUSED with the flag set.
C1_Witness ==
    /\ pc # "aborted"
    /\ readyCount = 2
    /\ lastState = "FOCUSED"
    /\ newState.mIsXrSessionActive

\* C2: in every activation cycle xrBeginSession is called once, before the
\* first wait-frame, and xrEndSession once, on the STOPPING event; no
\* wait-frame, begin or end call happens outside that pattern.
C2_OneBeginOneEndPerCycle ==
    IF cycleOpen
    THEN cycleLog \in {<<"begin">>, <<"begin", "wait">>}
    ELSE cycleLog \in {<<>>, <<"begin", "end">>, <<"begin", "wait", "end">>}

\* C2, a case: a cycle with frames was closed by STOPPING and a second one
\* is open.
C2_Witness ==
    /\ readyCount = 2
    /\ cycleOpen
    /\ cycleLog = <<"begin", "wait">>
    /\ lastTick = "active"

\* C3: at the end of every tick the frame index is the number of active
\* ticks since the last (re)activation when the session is active, and 0 when
\* it is not.
C3_FrameIndexSequence ==
    pc = "top" =>
        /\ (lastTick = "active" => mFrameIndex = activeTicks)
        /\ (lastTick = "idle" => mFrameIndex = 0)


\* the runtime calls the event drain itself makes
DrainCalls == {"xrBeginSession", "xrEndSession"}

\* C11: once an EXITING event has been drained the stop is requested and the
\* loop is on its way out of that tick: it never reaches the tick's input
\* sync or frame calls, and no new tick starts.
C11_ExitingStopsBeforeFrame ==
    (lastState = "EXITING" /\ pc # "aborted") =>
        /\ newState.mIsStopRequested
        /\ pc \in {"poll", "msgs", "check", "done"}
        /\ Range(tickCalls) \subseteq DrainCalls

\* C11, a case: the session had rendered frames, was stopped and the EXITING
\* event ended the loop in the tick that also ended the session.
C11_ExitedAfterFrames ==
    /\ lastState = "EXITING"
    /\ pc = "done"
    /\ mFrameIndex >= 1
    /\ Contains(tickCalls, "xrEndSession")

\* C12: once a LOSS_PENDING session state or an instance-loss-pending event
\* has been drained, the stop is requested when the tick reaches the loop's
\* stop check, and no later tick runs without it.
C12_LossStopsLoop ==
    (lossSeen # {} /\ pc \in {"check", "top", "done"}) => newState.mIsStopRequested

\* the case C12 fails in: both loss events were handled and the loop went on
\* to complete the tick with no stop requested
C12_LoopGoesOnAfterLoss ==
    /\ lossSeen = {"session", "instance"}
    /\ pc = "top"
    /\ ~mLastAppState.mIsStopRequested

\* C13: while the xrBeginSession of the last READY event has failed, the
\* session-active flag is false and the ticks make no input-sync or frame
\* call.
C13_BeginFailsClosed ==
    (lastState = "READY" /\ ~lastBeginOk /\ pc # "aborted") =>
        /\ ~newState.mIsXrSessionActive
        /\ Range(tickCalls) \subseteq DrainCalls
        /\ (pc = "top" => ~mLastAppState.mIsXrSessionActive /\ mFrameIndex = 0)

\* C13, a case: xrBeginSession failed on the first READY event and a whole
\* tick has run since, idle.
C13_IdleAfterFailedBegin ==
    /\ lastState = "READY"
    /\ ~lastBeginOk
    /\ ~running
    /\ Contains(tickCalls, "xrBeginSession")
    /\ pc = "top"
    /\ lastTick = "idle"

\* C14: a step that handles a FOCUSED or VISIBLE event sets the has-focus
\* flag to whether the state was FOCUSED and changes neither the
\* session-active flag nor the stop-requested flag, and makes no runtime call.
C14_FocusOnlyChangesFocus ==
    [][(/\ pc = "poll"
        /\ events # <<>>
        /\ events' = Tail(events)
        /\ Head(events).type = "SESSION_STATE_CHANGED"
        /\ Head(events).state \in {"FOCUSED", "VISIBLE"})
       => /\ newState'.mHasFocus = (Head(events).state = "FOCUSED")
          /\ newState'.mIsXrSessionActive = newState.mIsXrSessionActive
          /\ newState'.mIsStopRequested = newState.mIsStopRequested
          /\ tickCalls' = tickCalls
          /\ pc' = "poll"]_vars

\* C14, a case: a VISIBLE event took the focus away, within one tick, from an
\* active session that had it.
C14_FocusLost ==
    /\ lastState = "VISIBLE"
    /\ pc = "poll"
    /\ mLastAppState.mHasFocus
    /\ ~newState.mHasFocus
    /\ newState.mIsXrSessionActive
    /\ ~newState.mIsStopRequested

(***************************************************************************)
(* Claims about the frame (Spec).                                          *)
(***************************************************************************)
\* C16: every xrEndFrame is given a layer count of at least 1 and at most 2
\* (the size of the layer array), also in a frame whose RenderScene added no
\* layer.
C16_EndFrameSubmitsLayer ==
    [][(pc = "check" /\ pc' = "top" /\ Contains(tickCalls', "xrEndFrame")) =>
          /\ layerCount' >= 1
          /\ layerCount' <= 2
          /\ layerCount' >= sceneLayers']_vars

\* C16, a case: RenderScene returned without adding a layer and xrEndFrame was
\* given one layer
C16_EmptySceneSubmitted ==
    /\ pc = "top"
    /\ lastTick = "active"
    /\ Contains(tickCalls, "xrEndFrame")
    /\ sceneLayers = 0
    /\ layerCount = 1

\* the place of a runtime call in the order a tick is to follow: the calls of
\* the event drain, wait-frame, begin-frame, the first frame's spaces, head
\* locate, input sync (buttons, then poses), render, end-frame
TickRank(call) ==
    CASE call \in DrainCalls                              -> 1
      [] call = "xrWaitFrame"                             -> 2
      [] call = "xrBeginFrame"                            -> 3
      [] call = "CreateRuntimeInitiatedReferenceSpaces"   -> 4
      [] call = "xrLocateSpace"                           -> 5
      [] call = "xrSyncActions"                           -> 6
      [] call = "xrGetActionState"                        -> 7
      [] call = "xrLocateSpace(hand)"                     -> 8
      [] call = "xrLocateViews"                           -> 9
      [] OTHER                                            -> 10

\* C17: the runtime calls of a tick come in the order event drain, wait-frame,
\* begin-frame, head locate, input sync with buttons before poses, render,
\* end-frame; in particular xrSyncActions and the action-state queries come
\* after the tick's wait-frame and begin-frame.
C17_TickOrder ==
    pc # "aborted" =>
        \A i, j \in DOMAIN tickCalls :
            i < j => TickRank(tickCalls[i]) <= TickRank(tickCalls[j])

\* the case C17 fails in: an active tick has ended in which xrSyncActions was
\* called before xrWaitFrame
C17_SyncBeforeWaitFrame ==
    /\ pc = "top"
    /\ lastTick = "active"
    /\ \E i, j \in DOMAIN tickCalls :
          /\ i < j
          /\ tickCalls[i] = "xrSyncActions"
          /\ tickCalls[j] = "xrWaitFrame"

\* the runtime puts an event into its queue
RuntimeIssuesEvent == Len(events') = Len(events) + 1

\* C20: once the destructor has posted the exit message, join() returns: the
\* render thread drains the message, requests the stop and leaves MainLoop.
\* The threads are scheduled fairly and the runtime issues finitely many
\* events.
C20_JoinReturns ==
    (<>[][~RuntimeIssuesEvent]_vars) => ((hostPc = "joining") ~> (hostPc = "joined"))

\* the case C20 fails in: the exit message is posted, and the render thread
\* has been stopped by a failed assert before it left MainLoop
C20_AbortedBeforeJoin ==
    /\ hostPc = "joining"
    /\ pc = "aborted"
    /\ assertsOn

(***************************************************************************)
(* The MessageQueue on its own: called from one thread (SpecQueue), and    *)
(* with concurrent producers (SpecMPSC), for every capacity tried.         *)
(***************************************************************************)
QueueOnly == QueueInit(Capacities) /\ AppFrozen /\ InitFrozen /\ LifeFrozen /\ FrameFrozen

QueueNext ==
    \/ SeqPost
    \/ SeqPoll

SpecQueue == QueueOnly /\ [][QueueNext]_vars

MPSCNext ==
    \/ \E p \in Producers : ProdReserve(p)
    \/ \E p \in Producers : ProdCheck(p)
    \/ \E p \in Producers : ProdRollback(p)
    \/ \E p \in Producers : ProdWrite(p)
    \/ ConsLoadHead
    \/ ConsCompare
    \/ ConsRead
    \/ ConsStore

SpecMPSC == QueueOnly /\ [][MPSCNext]_vars

(***************************************************************************)
(* Claims about MessageQueue.                                              *)
(***************************************************************************)
\* the messages between mHead and mTail, oldest first
Window(q, cap) ==
    [i \in 1 .. USub(q.mTail, q.mHead) |->
        SlotValue(q.mBuffer, SlotOf(UAdd(q.mHead, i - 1), cap))]

\* C4: of the messages posted to an empty queue with no Poll in between, the
\* first C are accepted and all later ones dropped, and tail - head is the
\* smaller of their number and C (checked under SpecQueue).
C4_OverflowDropsTail ==
    burstValid =>
        LET C == kCapacityPow2
            n == Len(burst)
        IN  /\ USub(gMessageQueue.mTail, gMessageQueue.mHead) = Min(n, C)
            /\ dropped = SubSeq(burst, C + 1, n)
            /\ Window(gMessageQueue, C) = SubSeq(burst, 1, Min(n, C))

\* C4, a case: capacity 4, the queue was used and emptied before, then C + 2
\* messages were posted and the last 2 dropped.
C4_TwoDropped ==
    /\ kCapacityPow2 = 4
    /\ gMessageQueue.mHead = 1
    /\ burstValid
    /\ Len(burst) = 6
    /\ Len(dropped) = 2
    /\ USub(gMessageQueue.mTail, gMessageQueue.mHead) = 4

\* C5: every Poll answers as a FIFO of capacity C does: the oldest accepted
\* message not yet returned, or false when there is none; no message is
\* returned twice (checked under SpecQueue).
C5_FifoOrder ==
    /\ lastPoll = idealPoll
    /\ Window(gMessageQueue, kCapacityPow2) = fifo
    /\ \A i, j \in DOMAIN polled : i < j => polled[i] < polled[j]

\* C5, a case: capacity 2, three rounds of two Posts and two Polls, so the
\* counters went round the ring three times, then a Poll that returned false.
C5_ThreeRounds ==
    /\ kCapacityPow2 = 2
    /\ polled = <<1, 2, 3, 4, 5, 6>>
    /\ gMessageQueue.mHead = 6
    /\ lastPoll.ran
    /\ ~lastPoll.ok

\* C6: with concurrent producers every Poll that returns true yields a
\* message whose write has completed and that no earlier Poll returned
\* (checked under SpecMPSC).
C6_PollYieldsWrittenOnce ==
    \A i \in DOMAIN polled :
        /\ polled[i] \in written
        /\ \A j \in 1 .. i - 1 : polled[j] # polled[i]

\* the case C6 fails in: Poll returned the default message of a slot that a
\* producer had reserved and not yet written
C6_UnwrittenSlotPolled ==
    /\ polled = <<0>>
    /\ written = {}
    /\ \E p \in Producers : prod[p].pc \in {"check", "write"} /\ prod[p].pos = 0

(***************************************************************************)
(* Claims about OpenXr::Init (checked under SpecInit).                     *)
(***************************************************************************)
IsPrefix(a, b) == Len(a) <= Len(b) /\ \A i \in 1 .. Len(a) : a[i] = b[i]

\* C7: the steps start in the declared order and a step starts only when
\* every earlier step succeeded.
C7_StrictOrder ==
    /\ IsPrefix(started, StepOrder)
    /\ \A i \in 1 .. Len(started) : \A j \in 1 .. i - 1 : StepOrder[j] \in okSteps

\* the case C7 fails in: session creation started although no usable graphics
\* context was created
C7_SessionWithoutContext ==
    /\ Contains(started, "session")
    /\ mEglContext = "invalid"

\* the negative values Init can return because the given step failed
FailureCodes(step) ==
    LET neg(S) == {r \in S : r < 0}
    IN  CASE step = "loader"   -> neg({InitLoader(f) : f \in LoaderFaults})
          [] step = "instance" ->
                neg({InitInstance(REQUIRED_EXTENSIONS, f).ret : f \in InstanceFaults}
                    \cup {InitInstance(<<>>, "none").ret,
                          InitInstance(OPTIONAL_EXTENSIONS, "none").ret})
          [] step = "system"   -> neg({InitSystem(f) : f \in SystemFaults})
          [] step = "egl"      -> {-7}
          [] step = "session"  ->
                neg({InitSession(e, f, lo, hi) :
                        e \in {"valid", "invalid"}, f \in SessionFaults,
                        lo \in MinApiVersions, hi \in MaxApiVersions})
          [] step = "viewconfig" -> neg({InitViewConfig(f) : f \in ViewConfigFaults})
          [] step = "spaces"   ->
                neg({InitSpaces(f, st).ret : f \in SpaceFaults, st \in BOOLEAN})

\* C8: a failed Init returns a negative value that no other step can make it
\* return.
C8_DistinctCodePerStep ==
    (ipc = "returned" /\ failedStep # "none") =>
        /\ initResult < 0
        /\ \A s \in Range(StepOrder) \ {failedStep} : initResult \notin FailureCodes(s)

\* the case C8 fails in: the loader step failed with a value the instance
\* step returns too
C8_SharedCode ==
    /\ ipc = "returned"
    /\ failedStep = "loader"
    /\ initResult \in FailureCodes("instance")

\* C9: after a failed Init everything that was acquired has been released,
\* youngest first, and nothing is left live.
C9_UnwindAll ==
    (ipc = "returned" /\ failedStep # "none") =>
        /\ live = <<>>
        /\ released = Reverse(acquired)

\* the case C9 fails in: the view configuration failed and the graphics
\* context is still alive when Init returns
C9_ContextLeftLive ==
    /\ ipc = "returned"
    /\ failedStep = "viewconfig"
    /\ Contains(live, "egl")

\* C10: when a required extension is not listed the instance step fails
\* without calling xrCreateInstance; when all are listed, xrCreateInstance
\* receives the required names followed by exactly the listed optional names,
\* in the order of the optional list, and the count of both.
C10_ExtensionNegotiation ==
    Contains(started, "instance") =>
        LET available == Range(extProps)
            info == createInfo
        IN  IF ~(Range(REQUIRED_EXTENSIONS) \subseteq available)
            THEN instanceRet < 0 /\ ~info.called /\ ~mInstance
            ELSE info.called =>
                    /\ info.enabledExtensionCount = Len(info.enabledExtensionNames)
                    /\ info.enabledExtensionCount
                         = Len(REQUIRED_EXTENSIONS)
                           + Cardinality(Range(OPTIONAL_EXTENSIONS) \cap available)
                    /\ SubSeq(info.enabledExtensionNames, 1, Len(REQUIRED_EXTENSIONS))
                         = REQUIRED_EXTENSIONS
                    /\ \A n \in Range(info.enabledExtensionNames) : n \in available
                    /\ \A i, j \in 1 .. Len(OPTIONAL_EXTENSIONS) :
                          (i < j /\ {OPTIONAL_EXTENSIONS[i], OPTIONAL_EXTENSIONS[j]}
                                        \subseteq available)
                          => \E a, b \in DOMAIN info.enabledExtensionNames :
                                /\ Len(REQUIRED_EXTENSIONS) < a
                                /\ a < b
                                /\ info.enabledExtensionNames[a] = OPTIONAL_EXTENSIONS[i]
                                /\ info.enabledExtensionNames[b] = OPTIONAL_EXTENSIONS[j]

\* C10, a case: the runtime lists every name twice, two optional names are
\* missing, and the instance was created with seven names.
C10_SomeOptionalMissing ==
    /\ mInstance
    /\ Len(extProps) > Cardinality(Range(extProps))
    /\ Cardinality(Range(OPTIONAL_EXTENSIONS) \cap Range(extProps)) = 4
    /\ createInfo.called
    /\ createInfo.enabledExtensionCount = 7

\* C10, the other case: a required name is missing and the step failed.
C10_RequiredMissing ==
    /\ Contains(started, "instance")
    /\ Len(extProps) > 0
    /\ ~(Range(REQUIRED_EXTENSIONS) \subseteq Range(extProps))
    /\ instanceRet = -3

(***************************************************************************)
(* Claims about the framebuffer and the teardown (SpecLife).               *)
(***************************************************************************)
\* C15: a Framebuffer::Create whose colour format is not among the formats the
\* runtime enumerates returns false and allocates nothing: xrCreateSwapchain
\* is not called, the swapchain handle stays null, the image, depth-buffer,
\* framebuffer and MSAA lists stay empty, and no GL name or swapchain is made.
C15_UnsupportedFormatAllocatesNothing ==
    [][(fbOps' = fbOps + 1 /\ lastOp'.name = "Create" /\ ~lastOp'.supported) =>
          /\ ~lastOp'.ret
          /\ ~Contains(lastOp'.calls, "xrCreateSwapchain")
          /\ ~fb'.mHandle
          /\ fb'.mColorSwapChainImages = 0
          /\ fb'.mDepthBuffers = <<>>
          /\ fb'.mFrameBuffers = <<>>
          /\ fb'.mMsaaColorBuffers = <<>>
          /\ swapchains' = swapchains
          /\ glObjects' = glObjects]_vars

\* C15, a case: the runtime lists one format, Create was given the other one
\* and has returned false
C15_OtherFormatRefused ==
    /\ lastOp.name = "Create"
    /\ ~lastOp.supported
    /\ ~lastOp.ret
    /\ swapchainFormats = {"GL_RGBA8"}
    /\ fb.mWidth = 1
    /\ ~fb.mHandle
    /\ fb.mFrameBuffers = <<>>

\* the place of a resource in the order Shutdown is to destroy them in
TeardownRank(resource) ==
    CASE resource \in SpaceNames -> 1
      [] resource = "session"    -> 2
      [] resource = "instance"   -> 3
      [] OTHER                   -> 4

\* C18: a Shutdown destroys the reference spaces, then the session, then the
\* instance, then the graphics context, and destroys no session or instance
\* that still has a live child.
C18_ReverseOrderNoLiveChild ==
    (lastOp.name = "Shutdown" /\ ipc # "aborted") =>
        /\ \A i, j \in DOMAIN lastOp.destroyed :
              i < j => TeardownRank(lastOp.destroyed[i]) <= TeardownRank(lastOp.destroyed[j])
        /\ lastOp.implicit = <<>>

\* the case C18 fails in: the session had been started, and Shutdown destroyed
\* it while spaces made from it, whose handles had been overwritten, were live
C18_SessionDestroyedWithLiveSpaces ==
    /\ lastOp.name = "Shutdown"
    /\ ipc = "returned"
    /\ failedStep = "none"
    /\ shutdownCalls = 1
    /\ sessionStarts >= 1
    /\ Contains(lastOp.destroyed, "session")
    /\ Contains(lastOp.implicit, "orphan")

EglCalls == {"eglMakeCurrent", "eglDestroySurface", "eglDestroyContext", "eglTerminate"}

\* C19: teardown is idempotent.  An OpenXr::Shutdown after an earlier one, the
\* EglContext::Shutdown of the destructor after the constructor's, and a
\* Framebuffer::Destroy after an earlier one with no Create in between, make
\* no destroy call on the runtime, EGL or GL and leave the object as it was.
C19_TeardownIdempotent ==
    [][/\ (shutdownCalls' = shutdownCalls + 1 /\ "OpenXr" \in torn) =>
             /\ lastOp'.name = "Shutdown"
             /\ lastOp'.calls = <<>>
             /\ UNCHANGED <<ipc, mInstance, mSession, mSpaces, mEglContext,
                            mEnabledExtensions, mEnabledExtensionCount, eglContext,
                            live, released>>
       /\ (shutdownCalls' = shutdownCalls + 1 /\ mEglContext # "null"
               /\ "EglContext" \in torn) =>
             /\ lastOp'.name = "Shutdown"
             /\ \A i \in DOMAIN lastOp'.calls : lastOp'.calls[i] \notin EglCalls
             /\ UNCHANGED eglContext
       /\ (fbOps' = fbOps + 1 /\ lastOp'.name = "Destroy" /\ "Framebuffer" \in torn) =>
             /\ lastOp'.calls = <<>>
             /\ UNCHANGED <<fb, glObjects, swapchains>>]_vars

\* C19, a case: Destroy ran twice in a row on a framebuffer that had been
\* created, and Shutdown ran twice after a successful Init
C19_DestroyedTwiceShutDownTwice ==
    /\ failedStep = "none"
    /\ shutdownCalls = 2
    /\ lastOp.name = "Shutdown"
    /\ lastOp.calls = <<>>
    /\ Contains(released, "session")
    /\ {"OpenXr", "Framebuffer"} \subseteq repeated
    /\ fbOps >= 3

(***************************************************************************)
(* Claims about the preferred hand (SpecInput).                            *)
(***************************************************************************)
\* a hand is active: its pose action is active and its located position valid
HandActive(hand) == poseActive[hand] /\ mInputStateFrame.mHandPositions[hand]

\* the hand's index trigger went to pressed since the last sync
JustPressed(hand) ==
    /\ mInputStateFrame.mIndexTriggerState[hand].changedSinceLastSync
    /\ mInputStateFrame.mIndexTriggerState[hand].currentState

AfterSyncHandPoses == posesSynced /\ inputPc = "buttons"

\* C21: after SyncHandPoses, if exactly one hand is active (pose action
\* active and located position valid), the preferred hand is that hand,
\* whatever the previous preference and the triggers were.
C21_OneActiveHandPreferred ==
    AfterSyncHandPoses =>
        \A hand \in Hands :
            (HandActive(hand) /\ ~HandActive(OtherHand(hand)))
                => mInputStateFrame.mPreferredHand = hand

\* the left hand alone is active and is preferred, though the right hand was
\* preferred before and has just pressed its trigger
C21_LeftAloneActive ==
    /\ AfterSyncHandPoses
    /\ HandActive("LEFT_CONTROLLER")
    /\ ~HandActive("RIGHT_CONTROLLER")
    /\ frameBefore.mPreferredHand = "RIGHT_CONTROLLER"
    /\ JustPressed("RIGHT_CONTROLLER")
    /\ mInputStateFrame.mPreferredHand = "LEFT_CONTROLLER"

\* C22: after SyncHandPoses with both hands active, the preferred hand is
\* the hand whose index trigger changed since the last sync and is now
\* pressed; a trigger that is pressed but unchanged does not count.
C22_JustPressedHandPreferred ==
    (AfterSyncHandPoses /\ \A h \in Hands : HandActive(h)) =>
        \A hand \in Hands :
            (JustPressed(hand) /\ ~JustPressed(OtherHand(hand)))
                => mInputStateFrame.mPreferredHand = hand

\* both active, right trigger just pressed, left trigger held unchanged, the
\* left hand preferred before: the right hand is preferred
C22_RightPressedLeftHeld ==
    /\ AfterSyncHandPoses
    /\ \A h \in Hands : HandActive(h)
    /\ mInputStateFrame.mIndexTriggerState["RIGHT_CONTROLLER"] = ActionStateBoolean(TRUE, TRUE)
    /\ mInputStateFrame.mIndexTriggerState["LEFT_CONTROLLER"] = ActionStateBoolean(FALSE, TRUE)
    /\ frameBefore.mPreferredHand = "LEFT_CONTROLLER"
    /\ mInputStateFrame.mPreferredHand = "RIGHT_CONTROLLER"

\* C23: if neither hand is active, or both are and no index trigger went to
\* pressed this tick, SyncHandPoses leaves the preferred hand as it was;
\* before any sync the preferred hand is the right hand.
C23_PreferenceRetained ==
    /\ ~posesSynced => mInputStateFrame.mPreferredHand = "RIGHT_CONTROLLER"
    /\ (/\ AfterSyncHandPoses
        /\ \/ \A h \in Hands : ~HandActive(h)
           \/ \A h \in Hands : HandActive(h) /\ ~JustPressed(h))
           => mInputStateFrame.mPreferredHand = frameBefore.mPreferredHand

\* both hands inactive after the left hand was preferred: it stays preferred
C23_InactiveAfterLeft ==
    /\ AfterSyncHandPoses
    /\ \A h \in Hands : ~HandActive(h)
    /\ frameBefore.mPreferredHand = "LEFT_CONTROLLER"
    /\ mInputStateFrame.mPreferredHand = "LEFT_CONTROLLER"

(***************************************************************************)
(* Claims about the framebuffer in use (SpecRender).                       *)
(***************************************************************************)
\* the last Acquire waited as often as it may and was answered a timeout
WaitTimedOut ==
    /\ Len(acquireLog.waits) = MaxWaitRetries + 1
    /\ acquireLog.waits[MaxWaitRetries + 1] = "XR_TIMEOUT_EXPIRED"

\* C24: Acquire acquires one image index, then calls the swap-image wait at
\* most 4 times, again only after a timeout, and returns without aborting
\* whatever the last wait answered.  (A failed xrAcquireSwapchainImage is a
\* failed runtime call: the process ends there, before any wait.)
C24_AcquireBounded ==
    acquireLog.calls # <<>> =>
        /\ Cardinality(Where(acquireLog.calls, "xrAcquireSwapchainImage")) = 1
        /\ acquireLog.calls[1] = "xrAcquireSwapchainImage"
        /\ Cardinality(Where(acquireLog.calls, "xrWaitSwapchainImage")) = Len(acquireLog.waits)
        /\ IF acquireLog.ok
           THEN /\ Len(acquireLog.waits) \in 1 .. 4
                /\ \A i \in 1 .. Len(acquireLog.waits) - 1 :
                      acquireLog.waits[i] = "XR_TIMEOUT_EXPIRED"
                /\ Len(acquireLog.waits) < 4
                      => acquireLog.waits[Len(acquireLog.waits)] # "XR_TIMEOUT_EXPIRED"
                /\ ~acquireLog.aborted
           ELSE acquireLog.waits = <<>> /\ acquireLog.aborted

\* four waits, all timed out, and Acquire has returned
C24_ReturnedAfterFourTimeouts ==
    /\ acquireLog.ok
    /\ WaitTimedOut
    /\ ~acquireLog.aborted
    /\ renderPc = "draw"

\* C25: if the swap-image wait still times out after the retries, the eye
\* is skipped for the frame: nothing is drawn into the image, it is not
\* released, and the process goes on.
C25_TimedOutEyeSkipped ==
    (acquireLog.ok /\ WaitTimedOut) =>
        /\ ~Contains(eyeLog, "draw")
        /\ ~Contains(eyeLog, "Resolve")
        /\ ~Contains(eyeLog, "Release")
        /\ renderPc # "aborted"

\* after four timeouts the image was drawn into and resolved, and its
\* release, which the runtime refuses, has ended the process
C25_DrawnAndReleasedUnwaited ==
    /\ acquireLog.ok
    /\ WaitTimedOut
    /\ eyeLog = <<"Acquire", "SetCurrent", "draw", "Resolve", "glFramebufferTexture2D",
                  "glBlitFramebuffer", "glInvalidateFramebuffer", "Release">>
    /\ renderPc = "aborted"

\* the step is a Resolve of a multisampled target without multiview
ResolveStep ==
    /\ renderPc = "resolve"
    /\ renderPc' = "release"
    /\ fb.mMultisamples > 1
    /\ ~fb.mUseMultiview

C27_FixedTargetAccepted ==
    (lastOp.name = "Create" /\ validation.recreated /\ validation.glComplete)
        => lastOp.ret

\* the depth buffer was recreated, the second check reported complete, and
\* Create returned false
C27_FixedTargetRefused ==
    /\ lastOp.name = "Create"
    /\ validation.status = "GL_FRAMEBUFFER_INCOMPLETE_MULTISAMPLE"
    /\ validation.recreated
    /\ validation.glComplete
    /\ ~lastOp.ret

\* C28: if Create failed for the eye, every later frame skips the eye: no
\* Acquire, SetCurrent, Resolve or Release is issued on its framebuffer, and
\* the process does not abort.
C28_FailedEyeSkipped ==
    (lastOp.name = "Create" /\ ~lastOp.ret) =>
        /\ eyeLog = <<>>
        /\ renderPc # "aborted"

\* Create refused the format and left the swapchain handle null; the first
\* frame called Acquire on it and the process ended
C28_AcquireOnNullSwapchain ==
    /\ lastOp.name = "Create"
    /\ ~lastOp.ret
    /\ ~fb.mHandle
    /\ fb.mFrameBuffers = <<>>
    /\ eyeLog = <<"Acquire">>
    /\ renderPc = "aborted"

(***************************************************************************)
(* Claims about the frame calls of a tick (Spec).                          *)
(***************************************************************************)
Count(calls, call) == Cardinality(Where(calls, call))

\* where `call` comes first in `calls` (0: nowhere)
Position(calls, call) ==
    IF Where(calls, call) = {} THEN 0
    ELSE CHOOSE i \in Where(calls, call) : \A j \in Where(calls, call) : i <= j

\* the step ends a tick: the part of MainLoop's iteration after the stop check
TickEnds == pc = "check" /\ pc' = "top"

\* C29: every tick that calls wait-frame calls begin-frame once and end-frame
\* once, in the order wait, begin, end, and gives end-frame the display time
\* that tick's wait-frame predicted; a tick in which the session is inactive
\* calls none of the three.
C29_WaitBeginEndOncePerTick ==
    [][TickEnds =>
          LET waits  == Count(tickCalls', "xrWaitFrame")
              begins == Count(tickCalls', "xrBeginFrame")
              ends   == Count(tickCalls', "xrEndFrame")
          IN  /\ waits = (IF newState.mIsXrSessionActive THEN 1 ELSE 0)
              /\ begins = waits
              /\ ends = waits
              /\ waits = 1 =>
                    /\ Position(tickCalls', "xrWaitFrame") < Position(tickCalls', "xrBeginFrame")
                    /\ Position(tickCalls', "xrBeginFrame") < Position(tickCalls', "xrEndFrame")
                    /\ frameTimes'.predictedDisplayTime > 0
                    /\ frameTimes'.displayTime = frameTimes'.predictedDisplayTime
              /\ waits = 0 => frameTimes' = NoFrameTimes]_vars

\* the second frame of an activation has been ended at its predicted time
C29_SecondFrameEnded ==
    /\ pc = "top"
    /\ lastTick = "active"
    /\ mFrameIndex = 2
    /\ Contains(tickCalls, "xrEndFrame")
    /\ frameTimes = FrameTimes(2, 2)

\* C30: the ForwardDirection/Head spaces are re-derived exactly once per
\* activation cycle: on the first active tick after the session was begun,
\* which is the tick whose frame index is 1, after begin-frame and before the
\* head is located, and on no other tick.
C30_RederivedOncePerCycle ==
    [][TickEnds =>
          LET rederived == Contains(tickCalls', "CreateRuntimeInitiatedReferenceSpaces")
          IN  /\ rederived <=> (lastTick' = "active" /\ activeTicks' = 1)
              /\ rederived =>
                    /\ mFrameIndex' = 1
                    /\ Count(tickCalls', "CreateRuntimeInitiatedReferenceSpaces") = 1
                    /\ Position(tickCalls', "xrBeginFrame")
                          < Position(tickCalls', "CreateRuntimeInitiatedReferenceSpaces")
                    /\ Position(tickCalls', "CreateRuntimeInitiatedReferenceSpaces")
                          < Position(tickCalls', "xrLocateSpace")]_vars

\* the first frame of a second activation has frame index 2 and went without
\* the re-derivation
C30_SecondCycleNotRederived ==
    /\ pc = "top"
    /\ ~assertsOn
    /\ readyCount = 2
    /\ lastTick = "active"
    /\ activeTicks = 1
    /\ mFrameIndex = 2
    /\ Contains(tickCalls, "xrWaitFrame")
    /\ ~Contains(tickCalls, "CreateRuntimeInitiatedReferenceSpaces")

(***************************************************************************)
(* Claims about the asserts of the session state handler (Spec).           *)
(***************************************************************************)
\* xrPollEvent is about to hand the render thread a change to this state
NextHandled(state) ==
    /\ pc = "poll"
    /\ events # <<>>
    /\ Head(events) = SessionStateChanged(state)

\* C31: the two assertions of OXRHandleSessionStateChanges never fail: when a
\* READY event is handled the previous tick's active flag is false, and when
\* a STOPPING event is handled it is true, also with several state changes
\* drained in one tick and with a READY whose begin-session failed.
C31_AssertionsNeverFail ==
    /\ NextHandled("READY") => ~mLastAppState.mIsXrSessionActive
    /\ NextHandled("STOPPING") => mLastAppState.mIsXrSessionActive

\* a build with asserts has stopped on the STOPPING assert: the session was
\* begun and told to stop inside one drain, after an inactive tick
C31_StoppingAssertFailed ==
    /\ pc = "aborted"
    /\ assertsOn
    /\ lastState = "STOPPING"
    /\ running
    /\ newState.mIsXrSessionActive
    /\ ~mLastAppState.mIsXrSessionActive

(***************************************************************************)
(* Claims about the counters of MessageQueue (SpecMPSC).                   *)
(***************************************************************************)
\* mTail - mHead read as a signed difference of the SizeBits-wide counters
HeadWithinTail(q) == USub(q.mTail, q.mHead) < SizeMod \div 2

\* messages whose write has completed and that no Poll has returned
Backlog == written \ Range(polled)

\* C32: under any interleaving of the steps of Post (one or more producers)
\* and of Poll (one consumer) the head counter never exceeds the tail
\* counter, and the messages accepted and not yet consumed never number more
\* than the capacity.
C32_HeadWithinTailBacklogWithinCapacity ==
    /\ HeadWithinTail(gMessageQueue)
    /\ Cardinality(Backlog) <= kCapacityPow2

\* every call has returned and the head is past the tail: a Poll consumed the
\* slot of a reservation that was then rolled back
C32_HeadPassedTail ==
    /\ \A p \in Producers : prod[p].pc = "idle"
    /\ cons.pc = "idle"
    /\ gMessageQueue.mHead = 2
    /\ gMessageQueue.mTail = 1
    /\ ~HeadWithinTail(gMessageQueue)

(***************************************************************************)
(* Claims about the end of the session (Spec).                             *)
(***************************************************************************)
\* C33: when the loop is left while the session is running (begun and not
\* ended), DestroySession calls xrEndSession and then xrDestroySession; when
\* the session is not running it calls xrDestroySession only.
C33_RunningSessionEndedFirst ==
    pc = "done" =>
        exitCalls = IF running THEN <<"xrEndSession", "xrDestroySession">>
                    ELSE <<"xrDestroySession">>

\* the host's exit message ended the loop during an active session, which was
\* destroyed while it was running
C33_DestroyedWhileRunning ==
    /\ pc = "done"
    /\ hostPc = "joining"
    /\ running
    /\ mLastAppState.mIsXrSessionActive
    /\ mFrameIndex >= 1
    /\ exitCalls = <<"xrDestroySession">>

(***************************************************************************)
(* Claims about the reference spaces (SpecLife).                           *)
(***************************************************************************)
\* the spaces among the resources of a list, repeats counted
SpacesIn(list) == Cardinality({i \in DOMAIN list : list[i] \in SpaceNames})

\* C34: every reference space created, by InitSpaces or by the first-frame
\* re-derivation, is destroyed exactly once by the time Shutdown returns, and
\* no live space handle is overwritten by a newer one without being
\* destroyed, over any number of activation cycles.
C34_EverySpaceDestroyedOnce ==
    /\ ~Contains(live, "orphan")
    /\ (lastOp.name = "Shutdown" /\ ipc = "returned" /\ failedStep = "none"
            /\ shutdownCalls = 1) =>
          /\ SpacesIn(lastOp.destroyed) = SpacesIn(acquired)
          /\ lastOp.implicit = <<>>

\* two activations: the three handles InitSpaces stored and the three of the
\* first re-derivation were overwritten while their spaces were live
C34_SixHandlesOverwritten ==
    /\ shutdownCalls = 0
    /\ mSession
    /\ sessionStarts = 2
    /\ Count(live, "orphan") = 6
    /\ SpacesIn(live) \in {4, 5}

(***************************************************************************)
(* Claims about the eye iteration of RenderScene (SpecRender).             *)
(***************************************************************************)
\* RenderScene is through with an eye: it goes on to the next eye or returns
\* to Frame, which ends the frame
EyeOver == renderPc = "acquire" /\ renderFrames > 0

EyeSteps == {"Acquire", "SetCurrent", "draw", "Resolve", "Release"}

\* C35: Acquire and Release alternate, and every image acquired in a tick is
\* released before the tick's end-frame, on every path through RenderScene,
\* its early returns included; per eye the order is acquire, wait, bind,
\* draw, resolve, release.
C35_AcquireReleaseAlternate ==
    EyeOver =>
        /\ \A i \in DOMAIN swapImages : swapImages[i] = "free"
        /\ SelectSeq(eyeLog, LAMBDA c : c \in EyeSteps)
              = <<"Acquire", "SetCurrent", "draw", "Resolve", "Release">>
        /\ acquireLog.calls[1] = "xrAcquireSwapchainImage"
        /\ Contains(acquireLog.calls, "xrWaitSwapchainImage")

\* the program was not linked: RenderScene returned after the bind with the
\* image acquired, waited on and not released
C35_ReturnedWithImageHeld ==
    /\ renderPc = "acquire"
    /\ acquireLog.ok
    /\ eyeLog = <<"Acquire", "SetCurrent">>
    /\ swapImages[mTextureSwapChainIndex + 1] = "waited"

(***************************************************************************)
(* Claims about the threads the host creates (SpecHost).                   *)
(***************************************************************************)
\* the render thread is in MainLoop
InMainLoop == pc \in {"mainloop", "top", "poll", "msgs", "check"}

\* an EXIT_NEEDED message is in the queue that no destructor is waiting on
StaleExit ==
    /\ hostPc = "alive"
    /\ gMessageQueue.mHead # gMessageQueue.mTail

\* C36: every render thread a create call starts is in MainLoop only with a
\* live instance and session, and finds in the queue only exit requests
\* posted for it: also the thread of a create that follows a destroy, or
\* follows a loop that ended by itself and a destroy that posted its exit
\* afterwards.
C36_EveryThreadHasSessionAndNoStaleExit ==
    InMainLoop =>
        /\ mInstance
        /\ mSession
        /\ ~StaleExit

\* the second create's thread is in MainLoop: Init was skipped for the
\* OpenXr object the first thread shut down, and the exit message the first
\* destroy posted after the loop had ended is still in the queue
C36_SecondThreadOnShutDownSession ==
    /\ pc = "mainloop"
    /\ hostPc = "alive"
    /\ shutdownCalls = 1
    /\ ~gOpenXrIsNull
    /\ ~mInstance
    /\ ~mSession
    /\ gMessageQueue.mHead = 0
    /\ gMessageQueue.mTail = 1


(***************************************************************************)
(* The graphics-context step of OpenXr::Init when EglContext::Init fails   *)
(* (checked under SpecInit).                                               *)
(***************************************************************************)
\* C37: once the context object is invalid, Init does not start session
\* creation, and it returns a negative code for the graphics-context step.
C37_InvalidContextStopsInit ==
    mEglContext = "invalid" =>
        /\ ~Contains(started, "session")
        /\ ipc = "returned" => (initResult < 0 /\ failedStep = "egl")

\* the case C37 fails in: EglContext::Init failed, every handle of the context
\* was reset, and Init returned the code of the session step
C37_SessionStepReportedFailure ==
    /\ ipc = "returned"
    /\ mEglContext = "invalid"
    /\ eglContext = NoEglMembers
    /\ failedStep = "session"
    /\ initResult < 0


(***************************************************************************)
(* Multiview and Resolve (checked under SpecLife).                         *)
(***************************************************************************)
\* multiview was asked for and the GL has both its entry point and extension
MultiviewInEffect(info) == info.useMultiview /\ info.entryPoint /\ info.extension

\* C38: Create keeps multiview only when it was requested and is supported,
\* the swapchain it creates has array size 2 exactly then and 1 otherwise,
\* and Resolve makes no GL call when the sample count is at most 1 or
\* multiview is in effect.
C38_ResolveSkippedMultiviewFallsBack ==
    /\ lastOp.name \in {"Create", "Resolve"} =>
          /\ fb.mUseMultiview = MultiviewInEffect(lastOp.sci)
          /\ fb.mMultisamples = lastOp.sci.multisamples
          /\ fb.mHandle =>
                lastOp.sci.arraySize = IF MultiviewInEffect(lastOp.sci) THEN 2 ELSE 1
    /\ lastOp.name = "Resolve" =>
          (lastOp.sci.multisamples <= 1 \/ MultiviewInEffect(lastOp.sci)
               => lastOp.calls = <<>>)

\* Resolve did nothing on a multisampled framebuffer whose multiview is in effect
C38_ResolveSkippedUnderMultiview ==
    /\ lastOp.name = "Resolve"
    /\ lastOp.calls = <<>>
    /\ lastOp.sci.multisamples > 1
    /\ MultiviewInEffect(lastOp.sci)
    /\ lastOp.sci.arraySize = 2


(***************************************************************************)
(* The stop request of the menu button (checked under Spec).               *)
(***************************************************************************)
FrameCallNames == {"xrWaitFrame", "xrBeginFrame", "xrEndFrame"}

\* a tick has ended with the stop request in the state it left behind
StopLeftBehind == mLastAppState.mIsStopRequested

\* C39: no step clears the stop request, in the tick's state or in the state
\* the tick leaves behind.  Only the menu button of an active tick leaves the
\* request behind, and that tick has made its three frame calls; the tick
\* after it carries the request from its start, makes no frame call, and
\* leaves its stop check only by leaving the loop.
C39_StopRequestTerminal ==
    /\ [](StopLeftBehind =>
            /\ lastTick = "active"
            /\ pc = "top" => /\ FrameCallNames \subseteq Range(tickCalls)
                             /\ frameTimes # NoFrameTimes
            /\ pc # "top" => /\ newState.mIsStopRequested
                             /\ Range(tickCalls) \cap FrameCallNames = {})
    /\ [][/\ newState.mIsStopRequested => newState'.mIsStopRequested
          /\ StopLeftBehind =>
                /\ mLastAppState'.mIsStopRequested
                /\ mFrameIndex' = mFrameIndex
                /\ pc = "check" /\ pc' # pc => pc' = "done"]_vars

\* the loop was left in the tick after the one whose menu button asked to stop
C39_LeftAfterMenuPress ==
    /\ pc = "done"
    /\ StopLeftBehind
    /\ lastTick = "active"
    /\ frameTimes # NoFrameTimes
    /\ tickCalls = <<>>


(***************************************************************************)
(* The render thread and the message queue (checked under SpecDrain).      *)
(***************************************************************************)
\* the render thread takes a step inside HandleMessageQueueEvents
RenderDrains == pc = "drain" /\ (cons' # cons \/ pc' # pc)

\* steps HandleMessageQueueEvents can still take: four per message it may
\* still handle, less the steps of the Poll under way
DrainRank(at, poll, n) ==
    IF at # "drain" THEN 0
    ELSE 4 * (kMaxNumMessagesPerFrame - n) + 1
         + (CASE poll = "idle" -> 3 [] poll = "compare" -> 2
              [] poll = "read" -> 1 [] poll = "store" -> 0)

\* C40: inside HandleMessageQueueEvents the render thread always has a step
\* to take, whatever the producers are doing, and every step brings the end
\* of the drain nearer.  A Poll that finds head equal to tail returns false
\* with its very next step, changes neither head nor tail, and ends the
\* drain.  A tick handles at most kMaxNumMessagesPerFrame messages, advances
\* the head by one for each, and the drain ends only on an empty Poll or at
\* the limit.
C40_DrainNeverWaits ==
    /\ [](/\ drained <= kMaxNumMessagesPerFrame
          /\ Len(polled) = drained
          /\ gMessageQueue.mHead = drained
          /\ pc = "drain" => ENABLED DrainStep)
    /\ [][RenderDrains =>
            /\ DrainRank(pc', cons'.pc, drained') < DrainRank(pc, cons.pc, drained)
            /\ cons.pc = "compare" /\ PollIsEmpty(cons.head, gMessageQueue.mTail) =>
                  /\ gMessageQueue' = gMessageQueue
                  /\ lastPoll' = [NoPoll EXCEPT !.ran = TRUE]
                  /\ cons' = IdleCons
                  /\ drained' = drained
                  /\ pc' = "check"
            /\ pc' # pc =>
                  /\ pc' = "check"
                  /\ drained = kMaxNumMessagesPerFrame \/ ~lastPoll'.ok]_vars

\* a drain ended at the limit with messages left, after Post calls ran
\* beside it
C40_StoppedAtLimit ==
    /\ pc = "check"
    /\ drained = kMaxNumMessagesPerFrame
    /\ gMessageQueue.mHead = kMaxNumMessagesPerFrame
    /\ gMessageQueue.mTail > kMaxNumMessagesPerFrame + 1
    /\ nextMsg > MaxPosts
    /\ lastPoll.ok

=============================================================================
